---------------------------- MODULE Spec2Model ----------------------------
(***************************************************************************)
(* A model of three parts of SAMRAI:                                       *)
(*   - algs::OuternodeSumTransactionFactory (allocate,                     *)
(*     preprocessScratchSpace) and the sum round that uses it;             *)
(*   - pdat::FaceConstantRefine<T>::refine, data-parallel (HAVE_RAJA) path;*)
(*   - algs::TimeRefinementIntegratorConnectorWidthRequestor and the       *)
(*     hierarchy's connector width negotiation.                            *)
(* Each part has its own specification (SpecSum, SpecRefine, SpecWidth);   *)
(* the variables of the other parts stay at their initial values.          *)
(***************************************************************************)
EXTENDS Integers, Sequences, FiniteSets, TLC

VARIABLES
    \* ---- sum round ----
    dstData,    \* dstData[p][n][node]: patch data of the destination level
    srcData,    \* srcData[s][node]: outernode source component of the source level
    sched,      \* the transactions of the schedule (built by allocate)
    pending,    \* transactions of the running round not yet executed
    phase,      \* "idle" | "scheduled" | "executing" | "complete" | "aborted"
    preCall,    \* the last preprocessScratchSpace call: its arguments and outcome
    \* ---- FaceConstantRefine::refine ----
    rIn,        \* the arguments of the refine call
    fdata,      \* fine face data written so far: <<axis, d, index>> -> value
    rStatus,    \* "idle" | "running" | "returned"
    rpc,        \* the kernel launch the call is at (position in Launches)
    rPending,   \* iterations of the running parallel_for_all not yet executed
    rWritten,   \* fine indices the running parallel_for_all has written
    rConflict,  \* an iteration wrote an index another iteration had written
    cWritten,   \* places of the coarse data the call has written
    \* ---- index coarsening ----
    ci,         \* an index, a ratio, and the coarse index computed for them
    \* ---- connector widths ----
    tagBuffer,  \* d_tag_buffer of the time refinement integrator's requestor
    maxLevels,  \* the hierarchy's maximum number of levels
    lastSet,    \* the argument of the last setTagBuffer call
    wOut,       \* the last direct call of computeRequiredConnectorWidths
    reg,        \* the requestors registered with the hierarchy
    neg,        \* the widths the hierarchy negotiated last
    \* ---- a connector ----
    conn,       \* the connector: built or not, and its width
    lastUse,    \* the last use of the connector by a consumer
    \* ---- entry points called with any arguments ----
    assertionsOn,   \* the build checks TBOX_ASSERT and its relatives
    acall,      \* the call of allocate made, and what came of it
    \* ---- identifiers ----
    idc,        \* the static constants of BlockId and PeriodicId
    idw,        \* two identifiers of one type, and their comparison
    \* ---- a synchronization round with remote transactions ----
    rnd,        \* the round's phase, its sends, receives and local transactions
    \* ---- the driver's time step loop ----
    drv         \* the driver's locals, and what it has written and returned

sumVars == <<dstData, srcData, sched, pending, phase, preCall>>
refineVars == <<rIn, fdata, rStatus, rpc, rPending, rWritten, rConflict, cWritten>>
widthVars == <<tagBuffer, maxLevels, lastSet, wOut, reg, neg>>
connVars == <<conn, lastUse>>
entryVars == <<assertionsOn, acall>>
idVars == <<idc, idw>>

vars == <<dstData, srcData, sched, pending, phase, preCall,
          rIn, fdata, rStatus, rpc, rPending, rWritten, rConflict, cWritten, ci,
          tagBuffer, maxLevels, lastSet, wOut, reg, neg, conn, lastUse,
          assertionsOn, acall, idc, idw, rnd, drv>>

(***************************************************************************)
(* Bounds of the model.                                                    *)
(***************************************************************************)
NumDstPatches == 2      \* patches of the destination level
NumSrcPatches == 3      \* patches of the source level (the N contributors)
NumComps == 3           \* patch data components (size of the selector)
MantBits == 3           \* significand bits of the modelled floating point
MaxRatio == 2           \* refinement ratios are 1..MaxRatio on each axis
MaxDepth == 2           \* depth of the face data is 1..MaxDepth
MaxCellLen == 2         \* the filled cell box is 1..MaxCellLen cells long on axis 0
MaxIndex == 8           \* indices coarsened alone are -MaxIndex..MaxIndex
MaxCoarsenRatio == 4    \* with ratios 1..MaxCoarsenRatio
MaxLevels == 3          \* the hierarchy has 1..MaxLevels levels
MaxTagLen == 2          \* a tag buffer has 0..MaxTagLen entries
MaxTag == 2             \* each of them 1..MaxTag
HierDim == 2            \* dimension of the hierarchy whose widths are computed
MaxDim == 4             \* refine is called on patches of dimension 1..MaxDim
MaxIdValue == 7         \* valid identifiers have the values 0..MaxIdValue
NumSends == 2           \* messages the process sends in a round
NumReceives == 3        \* messages the process receives in a round
NumLocals == 2          \* local transactions of a round
MaxInterval == 2        \* the dump intervals of the input are -1..MaxInterval
MaxSteps == 3           \* the integrator's maximum number of steps is 1..MaxSteps
MaxDt == 2              \* a time step is 1..MaxDt
MaxWidth == 3           \* a consumer of the connector requires 0..MaxWidth per axis

DstPatches == 1..NumDstPatches
SrcPatches == 1..NumSrcPatches
Comps == 0..(NumComps - 1)
Nodes == {"shared", "unshared"}
\* a shared_ptr or pointer: the null pointer, or an object
NullPtr == [isNull |-> TRUE]
IsNull(ptr) == ptr.isNull

(***************************************************************************)
(* Floating point.  OuternodeData<double> holds doubles; a double sum is   *)
(* the exact sum rounded to nearest, ties to even.  The model keeps that   *)
(* rounding at a significand of MantBits bits (53 for a double), on        *)
(* integer-valued data.                                                    *)
(***************************************************************************)
RECURSIVE Pow2(_)
Pow2(n) == IF n = 0 THEN 1 ELSE 2 * Pow2(n - 1)

RECURSIVE QuantumFrom(_, _)
QuantumFrom(a, q) == IF a < Pow2(MantBits) * q THEN q ELSE QuantumFrom(a, 2 * q)

\* round a magnitude to MantBits significant bits, nearest, ties to even
RoundMag(a) ==
    LET q  == QuantumFrom(a, 1)
        lo == (a \div q) * q
        hi == lo + q
        r  == a - lo
    IN  IF 2 * r < q THEN lo
        ELSE IF 2 * r > q THEN hi
        ELSE IF (lo \div q) % 2 = 0 THEN lo ELSE hi

Round(x) == IF x >= 0 THEN RoundMag(x) ELSE 0 - RoundMag(0 - x)

Representable(x) == Round(x) = x

\* dst += src on doubles
FAdd(a, b) == Round(a + b)

Big == Pow2(MantBits)
\* the values patch data takes in the model: all representable
Values == {0, 3, 5, Big}

(***************************************************************************)
(* Levels, boxes, components.                                              *)
(***************************************************************************)
DstLevel == [isNull |-> FALSE, name |-> "dst", dim |-> 2, patches |-> DstPatches]
SrcLevel == [isNull |-> FALSE, name |-> "src", dim |-> 2, patches |-> SrcPatches]
BoxOf(level, p) == [dim |-> level.dim, localId |-> p]

\* the last component is cell data, the others are outernode data
CompKind(n) == IF n = NumComps - 1 THEN "cell" ELSE "outernode"

\* the refine item of the sum: source component and scratch component
ScratchComp == 0
RefineData == [isNull |-> FALSE, items |-> <<[src |-> 0, scratch |-> ScratchComp]>>]
OverlapOf(nodes) == [isNull |-> FALSE, nodes |-> nodes]

(***************************************************************************)
(* OuternodeSumTransactionFactory::allocate (with clip box).               *)
(* The TBOX_ASSERTs are the guard; box and use_time_interpolation are      *)
(* NULL_USEd.                                                              *)
(***************************************************************************)
\* mutant: the local id of the source box is not asserted
AllocateAssertsNoSrcId(dst_level, src_level, overlap, dst_node, src_node, refine_data) ==
    /\ ~IsNull(dst_level)
    /\ ~IsNull(src_level)
    /\ ~IsNull(overlap)
    /\ dst_node.localId >= 0
    /\ ~IsNull(refine_data)
    /\ {dst_level.dim, src_level.dim, dst_node.dim, src_node.dim}
           = {dst_level.dim}

AllocateAsserts(dst_level, src_level, overlap, dst_node, src_node, refine_data) ==
    /\ ~IsNull(dst_level)
    /\ ~IsNull(src_level)
    /\ ~IsNull(overlap)
    /\ dst_node.localId >= 0
    /\ src_node.localId >= 0
    /\ ~IsNull(refine_data)
    /\ {dst_level.dim, src_level.dim, dst_node.dim, src_node.dim}
           = {dst_level.dim}

\* mutant: the source box is taken from the destination box
AllocateSwapped(dst_level, src_level, overlap, dst_node, src_node, refine_data, item_id, box, use_time_interpolation) ==
    IF AllocateAsserts(dst_level, src_level, overlap, dst_node, src_node, refine_data)
    THEN [ok |-> TRUE,
          txn |-> [dst_level |-> dst_level, src_level |-> src_level,
                   overlap |-> overlap, dst_node |-> dst_node,
                   src_node |-> dst_node, refine_data |-> refine_data,
                   item_id |-> item_id]]
    ELSE [ok |-> FALSE]

\* mutant: with time interpolation the transaction is built for item 0
AllocateInterpolated(dst_level, src_level, overlap, dst_node, src_node, refine_data, item_id, box, use_time_interpolation) ==
    IF AllocateAsserts(dst_level, src_level, overlap, dst_node, src_node, refine_data)
    THEN [ok |-> TRUE,
          txn |-> [dst_level |-> dst_level, src_level |-> src_level,
                   overlap |-> overlap, dst_node |-> dst_node,
                   src_node |-> src_node, refine_data |-> refine_data,
                   item_id |-> IF use_time_interpolation THEN 0 ELSE item_id]]
    ELSE [ok |-> FALSE]

Allocate(dst_level, src_level, overlap, dst_node, src_node, refine_data, item_id, box, use_time_interpolation) ==
    IF AllocateAsserts(dst_level, src_level, overlap, dst_node, src_node, refine_data)
    THEN [ok |-> TRUE,
          txn |-> [dst_level |-> dst_level, src_level |-> src_level,
                   overlap |-> overlap, dst_node |-> dst_node,
                   src_node |-> src_node, refine_data |-> refine_data,
                   item_id |-> item_id]]
    ELSE [ok |-> FALSE]

(***************************************************************************)
(* OuternodeSumTransactionFactory::preprocessScratchSpace.                 *)
(* The loops run over the patches of the level and, per patch, over the    *)
(* component indices 0..ncomponents-1; a selected component that is not    *)
(* outernode data fails TBOX_ASSERT(onode_data) after the fills before it. *)
(***************************************************************************)
fillAll(arr, v) == [node \in DOMAIN arr |-> v]

\* mutant: the fill is left out
FillComponentSkipped(arr) == arr

\* onode_data->fillAll(0.0)
FillComponent(arr) == fillAll(arr, 0)

\* the loops over the patches of the level and over the components
RECURSIVE PreprocessFrom(_, _, _, _, _)
PreprocessFrom(data, p, n, sel, patches) ==
    IF p > NumDstPatches THEN [data |-> data, ok |-> TRUE]
    ELSE IF p \notin patches \/ n >= NumComps
         THEN PreprocessFrom(data, p + 1, 0, sel, patches)
    ELSE IF n \in sel
         THEN IF CompKind(n) = "outernode"
              THEN PreprocessFrom(
                       [data EXCEPT ![p][n] = FillComponent(data[p][n])],
                       p, n + 1, sel, patches)
              ELSE [data |-> data, ok |-> FALSE]
         ELSE PreprocessFrom(data, p, n + 1, sel, patches)

\* mutant: the patch loop stops after the first patch
preprocessFirstPatchOnly(level, fill_time, sel, data) ==
    IF IsNull(level) THEN [data |-> data, ok |-> FALSE]
    ELSE LET r == PreprocessFrom(data, NumDstPatches, 0, sel, level.patches)
             q == PreprocessFrom(data, 1, 0, sel, level.patches)
         IN  [data |-> [p \in DstPatches |->
                          IF p = 1 THEN q.data[p] ELSE data[p]],
              ok |-> q.ok]

\* mutant: isSet is not asked, every outernode component is filled
preprocessEveryComponent(level, fill_time, sel, data) ==
    IF IsNull(level) THEN [data |-> data, ok |-> FALSE]
    ELSE LET r == PreprocessFrom(data, 1, 0, {n \in Comps : CompKind(n) = "outernode"},
                                 level.patches)
         IN  [data |-> r.data,
              ok |-> \A n \in sel : level.patches = {} \/ CompKind(n) = "outernode"]

preprocessScratchSpace(level, fill_time, sel, data) ==
    IF IsNull(level) THEN [data |-> data, ok |-> FALSE]
    ELSE PreprocessFrom(data, 1, 0, sel, level.patches)

\* a level without patches
EmptyLevel == [isNull |-> FALSE, name |-> "empty", dim |-> 2, patches |-> {}]

\* with the assertions compiled out a null level is dereferenced, and a
\* component that is not outernode data is filled through a pointer of the
\* wrong type: the call crashes or returns, with the data as the loops had
\* left them or with some component overwritten
preprocessUndefined(data) ==
    {[data |-> d, ok |-> o] :
        d \in {data} \cup {[data EXCEPT ![p][n] = fillAll(data[p][n], 0)] :
                              p \in DstPatches, n \in Comps},
        o \in BOOLEAN}

\* the outcomes of preprocessScratchSpace in a build: check tells whether
\* the build checks its assertions
preprocessInBuild(check, level, fill_time, sel, data) ==
    LET r == preprocessScratchSpace(level, fill_time, sel, data)
    IN  IF check \/ r.ok THEN {r} ELSE preprocessUndefined(r.data)

(***************************************************************************)
(* OuternodeSumTransaction: executing a transaction adds the source        *)
(* patch's values into the destination patch's scratch component over the  *)
(* overlap.                                                                *)
(***************************************************************************)
OuternodeSum(dst, src, overlap) ==
    [node \in DOMAIN dst |->
        IF node \in overlap THEN FAdd(dst[node], src[node]) ELSE dst[node]]

ExecuteTransaction(txn, data) ==
    LET item == txn.refine_data.items[txn.item_id + 1]
        d    == txn.dst_node.localId
        s    == txn.src_node.localId
    IN  [data EXCEPT ![d][item.scratch] =
            OuternodeSum(data[d][item.scratch], srcData[s], txn.overlap.nodes)]

(***************************************************************************)
(* The sum round.  A schedule is built with allocate; a round zero-fills   *)
(* the scratch components with preprocessScratchSpace, executes the        *)
(* transactions one at a time in any order, and completes.                 *)
(***************************************************************************)
NoCall == [made |-> FALSE]

\* the other parts of the model at rest
RefineIdle ==
    /\ rIn = [called |-> FALSE]
    /\ fdata = <<>>
    /\ rStatus = "idle"
    /\ rpc = 0
    /\ rPending = {}
    /\ rWritten = {}
    /\ rConflict = FALSE
    /\ cWritten = {}

CoarsenIdle == ci = [done |-> FALSE, i |-> 0, r |-> 1]

WidthIdle ==
    /\ tagBuffer = <<>>
    /\ maxLevels = 1
    /\ lastSet = [made |-> FALSE]
    /\ wOut = [made |-> FALSE]
    /\ reg = {}
    /\ neg = [made |-> FALSE]

ConnIdle ==
    /\ conn = [built |-> FALSE]
    /\ lastUse = [made |-> FALSE]

(***************************************************************************)
(* BlockId and PeriodicId: the static constants of the two types.          *)
(***************************************************************************)
\* tbox::MathUtilities<int>::getMax()
IntMax == 2147483647

BlockId_s_zero_id == 0
BlockId_s_invalid_id == IntMax

PeriodicId_s_zero_id == 0

\* mutant: the invalid periodic id is the zero id
PeriodicId_s_invalid_as_zero == PeriodicId_s_zero_id

PeriodicId_s_invalid_id == 0 - 1

\* static initialization
StaticIds ==
    [BlockId |-> [invalid |-> BlockId_s_invalid_id, zero |-> BlockId_s_zero_id],
     PeriodicId |-> [invalid |-> PeriodicId_s_invalid_id, zero |-> PeriodicId_s_zero_id]]

\* the constants are initialized; no identifier made
IdIdle ==
    /\ idc = StaticIds
    /\ idw = [made |-> FALSE]

\* no round begun
NoRound ==
    [phase |-> "idle", issued |-> {}, arrived |-> {}, awaiting |-> 0,
     blocked |-> FALSE, unpacked |-> {}, localDone |-> {}]

RoundIdle == rnd = NoRound

\* the driver is not running
DriverIdle == drv = [pc |-> "off"]

\* no entry point called; the build is the one that checks its assertions
EntryIdle ==
    /\ assertionsOn = TRUE
    /\ acall = [made |-> FALSE]

SumIdle ==
    /\ dstData = <<>>
    /\ srcData = <<>>
    /\ sched = {}
    /\ pending = {}
    /\ phase = "idle"
    /\ preCall = NoCall

\* source values, up to the numbering of the source patches
SortedSrc(f) == \A s \in SrcPatches : s + 1 \in SrcPatches =>
                    f[s].shared >= f[s + 1].shared

InitSum ==
    /\ \E g \in Values \ {0} :
          dstData = [p \in DstPatches |-> [n \in Comps |->
                       [node \in Nodes |-> IF n = ScratchComp THEN g ELSE 5]]]
    /\ srcData \in {f \in [SrcPatches -> {[shared |-> v, unshared |-> 3] : v \in Values}] :
                       SortedSrc(f)}
    /\ sched = {}
    /\ pending = {}
    /\ phase = "idle"
    /\ preCall = NoCall
    /\ RefineIdle
    /\ CoarsenIdle
    /\ WidthIdle
    /\ ConnIdle
    /\ EntryIdle
    /\ IdIdle
    /\ RoundIdle
    /\ DriverIdle

\* the schedule is built: one transaction per destination and source patch
CreateSchedule ==
    /\ phase \in {"idle", "complete"}
    /\ sched' = {Allocate(DstLevel, SrcLevel, OverlapOf({"shared"}),
                          BoxOf(DstLevel, d), BoxOf(SrcLevel, s),
                          RefineData, 0, BoxOf(DstLevel, 0), FALSE).txn :
                     d \in DstPatches, s \in SrcPatches}
    /\ phase' = "scheduled"
    /\ pending' = {}
    /\ preCall' = NoCall
    /\ UNCHANGED <<dstData, srcData, refineVars, ci, widthVars, connVars, entryVars, idVars, rnd, drv>>

\* a call of preprocessScratchSpace on the destination level's data
Preprocess(level, fill_time, sel) ==
    LET r == preprocessScratchSpace(level, fill_time, sel, dstData)
    IN  /\ dstData' = r.data
        /\ preCall' = [made |-> TRUE, nullLevel |-> IsNull(level),
                       fill_time |-> fill_time, sel |-> sel,
                       ok |-> r.ok, before |-> dstData]

\* the round's call selects the scratch components of its refine items
BeginRound ==
    /\ phase = "scheduled"
    /\ \E t \in {0, 1} :
          Preprocess(DstLevel, t,
                     {RefineData.items[i].scratch : i \in DOMAIN RefineData.items})
    /\ phase' = IF preCall'.ok THEN "executing" ELSE "aborted"
    /\ pending' = IF preCall'.ok THEN sched ELSE {}
    /\ UNCHANGED <<srcData, sched, refineVars, ci, widthVars, connVars, entryVars, idVars, rnd, drv>>

Execute ==
    /\ phase = "executing"
    /\ \E t \in pending :
          /\ dstData' = ExecuteTransaction(t, dstData)
          /\ pending' = pending \ {t}
    /\ preCall' = NoCall
    /\ UNCHANGED <<srcData, sched, phase, refineVars, ci, widthVars, connVars, entryVars, idVars, rnd, drv>>

CompleteRound ==
    /\ phase = "executing"
    /\ pending = {}
    /\ phase' = "complete"
    /\ preCall' = NoCall
    /\ UNCHANGED <<dstData, srcData, sched, pending, refineVars, ci, widthVars, connVars, entryVars, idVars, rnd, drv>>

NextSum == CreateSchedule \/ BeginRound \/ Execute \/ CompleteRound

SpecSum == InitSum /\ [][NextSum]_vars

(***************************************************************************)
(* The factory called directly: any level, time and selector, on patch     *)
(* data holding any values.                                                *)
(***************************************************************************)
InitFactory ==
    /\ \E g \in [Comps -> Values] :
          dstData = [p \in DstPatches |-> [n \in Comps |->
                       [node \in Nodes |-> g[n]]]]
    /\ srcData = [s \in SrcPatches |-> [shared |-> 0, unshared |-> 0]]
    /\ sched = {}
    /\ pending = {}
    /\ phase = "idle"
    /\ preCall = NoCall
    /\ RefineIdle
    /\ CoarsenIdle
    /\ WidthIdle
    /\ ConnIdle
    /\ EntryIdle
    /\ IdIdle
    /\ RoundIdle
    /\ DriverIdle

PreprocessCall ==
    /\ phase = "idle"
    /\ \E level \in {NullPtr, DstLevel}, t \in {0, 1}, sel \in SUBSET Comps :
          Preprocess(level, t, sel)
    /\ phase' = IF preCall'.ok THEN "idle" ELSE "aborted"
    /\ UNCHANGED <<srcData, sched, pending, refineVars, ci, widthVars, connVars, entryVars, idVars, rnd, drv>>

NextFactory == PreprocessCall

SpecFactory == InitFactory /\ [][NextFactory]_vars

(***************************************************************************)
(* preprocessScratchSpace called with any arguments, in either build.      *)
(***************************************************************************)
InitPreprocess ==
    /\ \E g \in [Comps -> Values \ {0}] :
          dstData = [p \in DstPatches |-> [n \in Comps |->
                       [node \in Nodes |-> g[n]]]]
    /\ srcData = [s \in SrcPatches |-> [shared |-> 0, unshared |-> 0]]
    /\ sched = {}
    /\ pending = {}
    /\ phase = "idle"
    /\ preCall = NoCall
    /\ RefineIdle
    /\ CoarsenIdle
    /\ WidthIdle
    /\ ConnIdle
    /\ assertionsOn \in BOOLEAN
    /\ acall = [made |-> FALSE]
    /\ IdIdle
    /\ RoundIdle
    /\ DriverIdle

PreprocessAnyCall ==
    /\ phase = "idle"
    /\ ~preCall.made
    /\ \E level \in {NullPtr, DstLevel, EmptyLevel}, t \in {0, 1}, sel \in SUBSET Comps :
       \E r \in preprocessInBuild(assertionsOn, level, t, sel, dstData) :
          /\ dstData' = r.data
          /\ preCall' = [made |-> TRUE, nullLevel |-> IsNull(level),
                         patches |-> IF IsNull(level) THEN {} ELSE level.patches,
                         fill_time |-> t, sel |-> sel, ok |-> r.ok, before |-> dstData]
          /\ phase' = IF r.ok THEN "idle" ELSE "aborted"
    /\ UNCHANGED <<srcData, sched, pending, refineVars, ci, widthVars, connVars, entryVars, idVars, rnd, drv>>

NextPreprocess == PreprocessAnyCall

SpecPreprocess == InitPreprocess /\ [][NextPreprocess]_vars

(***************************************************************************)
(* FaceConstantRefine<T>::refine, built with HAVE_RAJA.                    *)
(* An index is a tuple of coordinates, a box a pair of indices; coordinate *)
(* i of the code is position i + 1 of the tuple.  Face boxes and the views *)
(* of face data have the face-normal coordinate first.                     *)
(***************************************************************************)
Dims == {2, 3}
Axes(dim) == 0..(dim - 1)

\* integer division of C: the quotient is truncated toward zero
TruncDiv(a, b) == IF a >= 0 THEN a \div b ELSE 0 - ((0 - a) \div b)

\* mutant: the adjustment for negative indices is left out
CoarsenIndexTruncating(i, r) == TruncDiv(i, r)

\* (i < 0) ? (i + 1) / r - 1 : i / r
CoarsenIndex(i, r) == IF i < 0 THEN TruncDiv(i + 1, r) - 1 ELSE TruncDiv(i, r)

lower(box, i) == box.lo[i + 1]
upper(box, i) == box.hi[i + 1]
setLower(box, i, v) == [box EXCEPT !.lo[i + 1] = v]
setUpper(box, i, v) == [box EXCEPT !.hi[i + 1] = v]
growUpper(box, i, g) == setUpper(box, i, upper(box, i) + g)
EmptyBox(dim) == [lo |-> [c \in 1..dim |-> 0], hi |-> [c \in 1..dim |-> 0 - 1]]
BoxIndices(box) ==
    LET least == CHOOSE m \in {box.lo[c] : c \in DOMAIN box.lo} :
                     \A c \in DOMAIN box.lo : m <= box.lo[c]
        most  == CHOOSE m \in {box.hi[c] : c \in DOMAIN box.hi} :
                     \A c \in DOMAIN box.hi : box.hi[c] <= m
    IN  {idx \in [DOMAIN box.lo -> least..most] :
            \A c \in DOMAIN box.lo : box.lo[c] <= idx[c] /\ idx[c] <= box.hi[c]}

\* fine_box: the face box taken back to the physical axes, made a cell box
RECURSIVE UnpermuteFrom(_, _, _, _, _)
UnpermuteFrom(fine_box, face_box, dim, axis, i) ==
    IF i >= dim THEN fine_box
    ELSE UnpermuteFrom(
             setUpper(setLower(fine_box, (axis + i) % dim, lower(face_box, i)),
                      (axis + i) % dim, upper(face_box, i)),
             face_box, dim, axis, i + 1)

\* mutant: the box is not shortened along the normal
FineBoxUnshortened(dim, axis, face_box) ==
    UnpermuteFrom(EmptyBox(dim), face_box, dim, axis, 0)

FineBox(dim, axis, face_box) ==
    LET b == UnpermuteFrom(EmptyBox(dim), face_box, dim, axis, 0)
    IN  setUpper(b, axis, upper(b, axis) - 1)

\* fine_box_plus: the box the kernel iterates over
Transpose2D(fine_box) ==
    setUpper(setUpper(setLower(setLower(fine_box,
        0, lower(fine_box, 1)), 1, lower(fine_box, 0)),
        0, upper(fine_box, 1)), 1, upper(fine_box, 0))

Transpose3D(fine_box, a, b, c) ==
    setUpper(setUpper(setUpper(setLower(setLower(setLower(fine_box,
        0, lower(fine_box, a)), 1, lower(fine_box, b)), 2, lower(fine_box, c)),
        0, upper(fine_box, a)), 1, upper(fine_box, b)), 2, upper(fine_box, c))

FineBoxPlus(dim, axis, fine_box) ==
    LET t == IF dim = 2
             THEN IF axis = 1 THEN Transpose2D(fine_box) ELSE fine_box
             ELSE IF axis = 1 THEN Transpose3D(fine_box, 1, 2, 0)
                  ELSE IF axis = 2 THEN Transpose3D(fine_box, 2, 0, 1)
                  ELSE fine_box
    IN  growUpper(t, 0, 1)

\* the coarse face data: every value names its own place
CoarseAt(axis, d, cidx) == [axis |-> axis, d |-> d, at |-> cidx]
\* what the fine data holds before the call
Stale == [axis |-> 0 - 1, d |-> 0 - 1, at |-> <<>>]

FineAt(f, loc) == IF loc \in DOMAIN f THEN f[loc] ELSE Stale
WriteFine(f, loc, v) == [x \in (DOMAIN f) \cup {loc} |-> IF x = loc THEN v ELSE f[x]]

\* the kernels' bodies: the write one iteration makes to fine_array
Lambda2D(f, axis, d, j, k, ratio) ==
    LET r0  == ratio[1]
        r1  == ratio[2]
        ic1 == CoarsenIndex(k, r1)
        ic0 == CoarsenIndex(j, r0)
    IN  [at |-> <<j, k>>, val |-> CoarseAt(axis, d, <<ic0, ic1>>)]

Lambda3D(f, axis, d, i, j, k, ratio) ==
    LET r0  == ratio[1]
        r1  == ratio[2]
        r2  == ratio[3]
        ic0 == CoarsenIndex(i, r0)
        ic1 == CoarsenIndex(j, r1)
        ic2 == CoarsenIndex(k, r2)
    IN  [at |-> <<i, j, k>>, val |-> CoarseAt(axis, d, <<ic0, ic1, ic2>>)]

\* mutant: an iteration copies from the fine neighbour below it, when there is one
LambdaReadsFine(f, dim, axis, d, idx, lo, ratio) ==
    [at |-> idx,
     val |-> IF idx[1] > lo
             THEN FineAt(f, <<axis, d, [idx EXCEPT ![1] = idx[1] - 1]>>)
             ELSE CoarseAt(axis, d, idx)]

\* mutant: an iteration writes the index one above its own along the normal
LambdaShifted(f, dim, axis, d, idx, lo, ratio) ==
    LET w == IF dim = 2 THEN Lambda2D(f, axis, d, idx[1], idx[2], ratio)
             ELSE Lambda3D(f, axis, d, idx[1], idx[2], idx[3], ratio)
    IN  [at |-> [w.at EXCEPT ![1] = w.at[1] + 1], val |-> w.val]

\* mutant: every depth component is filled from depth component 0
LambdaDepthZero(f, dim, axis, d, idx, lo, ratio) ==
    IF dim = 2 THEN Lambda2D(f, axis, 0, idx[1], idx[2], ratio)
    ELSE Lambda3D(f, axis, 0, idx[1], idx[2], idx[3], ratio)

Lambda(f, dim, axis, d, idx, lo, ratio) ==
    IF dim = 2 THEN Lambda2D(f, axis, d, idx[1], idx[2], ratio)
    ELSE Lambda3D(f, axis, d, idx[1], idx[2], idx[3], ratio)

\* the kernel launches of a call, in program order: axis, box, depth
RECURSIVE LaunchesFrom(_, _, _, _)
LaunchesFrom(in, axis, b, d) ==
    IF axis >= in.dim THEN <<>>
    ELSE IF b > Len(in.overlap[axis + 1]) THEN LaunchesFrom(in, axis + 1, 1, 0)
    ELSE IF d >= in.depth THEN LaunchesFrom(in, axis, b + 1, 0)
    ELSE <<[axis |-> axis, box |-> in.overlap[axis + 1][b], d |-> d]>>
             \o LaunchesFrom(in, axis, b, d + 1)

Launches(in) == LaunchesFrom(in, 0, 1, 0)

IterationBox(in, launch) ==
    FineBoxPlus(in.dim, launch.axis, FineBox(in.dim, launch.axis, launch.box))

\* the face box of a cell box for a normal axis (FaceGeometry::toFaceBox)
toFaceBox(dim, cell, axis) ==
    [lo |-> [c \in 1..dim |-> cell.lo[((axis + c - 1) % dim) + 1]],
     hi |-> [c \in 1..dim |-> cell.hi[((axis + c - 1) % dim) + 1]
                                 + (IF c = 1 THEN 1 ELSE 0)]]

\* the lower corners of the cell boxes the model fills: they differ on every axis
Corners(dim) == {[c \in 1..dim |-> ((k + c - 1) % 3) - 2] : k \in 0..1}

\* the normal axes the overlap has a box for: none, one, or all of them
OverlapAxes(dim) == {{}, Axes(dim)} \cup {{a} : a \in Axes(dim)}

\* the scalar path (the Fortran kernels Call2dFortranFace_d*, Call3dFortranFace_d*):
\* every face of the face box takes the coarse face whose index on each
\* physical axis is the fine index coarsened by that axis's ratio
FortranCoarsenIndex(ie, r) == IF ie < 0 THEN TruncDiv(ie + 1, r) - 1 ELSE TruncDiv(ie, r)

ScalarKernel(in, launch) ==
    [idx \in BoxIndices(launch.box) |->
        CoarseAt(launch.axis, launch.d,
                 [c \in 1..in.dim |->
                    FortranCoarsenIndex(idx[c],
                        in.ratio[((launch.axis + c - 1) % in.dim) + 1])])]

RECURSIVE ScalarFrom(_, _, _)
ScalarFrom(f, in, n) ==
    IF n > Len(Launches(in)) THEN f
    ELSE LET launch == Launches(in)[n]
             k == ScalarKernel(in, launch)
         IN  ScalarFrom([x \in (DOMAIN f) \cup {<<launch.axis, launch.d, idx>> : idx \in DOMAIN k} |->
                            IF x[1] = launch.axis /\ x[2] = launch.d /\ x[3] \in DOMAIN k
                            THEN k[x[3]] ELSE f[x]],
                        in, n + 1)

ScalarRefine(in) == ScalarFrom(<<>>, in, 1)

\* the kernels of the call run one after the other, each in a fixed order
RECURSIVE SequentialKernel(_, _, _, _)
SequentialKernel(f, in, launch, todo) ==
    IF todo = {} THEN f
    ELSE LET idx == CHOOSE x \in todo : TRUE
             w == Lambda(f, in.dim, launch.axis, launch.d, idx,
                         lower(IterationBox(in, launch), 0), in.ratio)
         IN  SequentialKernel(WriteFine(f, <<launch.axis, launch.d, w.at>>, w.val),
                              in, launch, todo \ {idx})

RECURSIVE SequentialFrom(_, _, _)
SequentialFrom(f, in, n) ==
    IF n > Len(Launches(in)) THEN f
    ELSE SequentialFrom(
             SequentialKernel(f, in, Launches(in)[n],
                              BoxIndices(IterationBox(in, Launches(in)[n]))),
             in, n + 1)

SequentialRefine(in) == SequentialFrom(<<>>, in, 1)

InitRefine ==
    /\ SumIdle
    /\ CoarsenIdle
    /\ RefineIdle
    /\ WidthIdle
    /\ ConnIdle
    /\ EntryIdle
    /\ IdIdle
    /\ RoundIdle
    /\ DriverIdle

\* mutant: the dimensions of the patches and the ratio are not compared
EntryFailureNoDim(in) ==
    IF in.overlapKind # "face" THEN "abort_overlap"
    ELSE IF in.srcKind # "face" THEN "abort_src"
    ELSE IF in.dstKind # "face" THEN "abort_dst"
    ELSE IF in.cdepth # in.depth THEN "abort_depth"
    ELSE "none"

\* mutant: the depths are not compared
EntryFailureNoDepth(in) ==
    IF in.overlapKind # "face" THEN "abort_overlap"
    ELSE IF in.srcKind # "face" THEN "abort_src"
    ELSE IF in.dstKind # "face" THEN "abort_dst"
    ELSE IF in.coarseDim # in.dim \/ Len(in.ratio) # in.dim THEN "abort_dim"
    ELSE "none"

\* the first assertion of refine's entry that fails, in the order of the code
EntryFailure(in) ==
    IF in.overlapKind # "face" THEN "abort_overlap"
    ELSE IF in.srcKind # "face" THEN "abort_src"
    ELSE IF in.dstKind # "face" THEN "abort_dst"
    ELSE IF in.cdepth # in.depth THEN "abort_depth"
    ELSE IF in.coarseDim # in.dim \/ Len(in.ratio) # in.dim THEN "abort_dim"
    ELSE "none"

\* with the assertions compiled out: the casts are static, and the code goes
\* on to read an object of another type, a depth the coarse data does not
\* have, or an index or ratio entry of another dimension
EntryUndefined(in) ==
    \/ in.overlapKind # "face"
    \/ in.srcKind # "face"
    \/ in.dstKind # "face"
    \/ in.depth > in.cdepth
    \/ in.coarseDim # in.dim
    \/ Len(in.ratio) # in.dim

WildLoc == <<0 - 1, 0 - 1, <<>>>>
Wild == [axis |-> 0 - 2, d |-> 0 - 2, at |-> <<>>]

\* undefined behaviour: the call crashes, or returns, with the fine and the
\* coarse data as they were or overwritten
Undefined(f) ==
    \E st \in {"crashed", "returned"}, wild \in BOOLEAN, cwild \in BOOLEAN :
        /\ rStatus' = st
        /\ rPending' = {}
        /\ fdata' = IF wild THEN WriteFine(f, WildLoc, Wild) ELSE f
        /\ cWritten' = IF cwild THEN cWritten \cup {WildLoc} ELSE cWritten

\* mutant: an overlap without any box is taken for an error
StartLaunchRejectsEmpty(in, n, f) ==
    IF n > Len(Launches(in))
    THEN /\ rStatus' = IF n = 1 THEN "abort_overlap" ELSE "returned"
         /\ rPending' = {}
         /\ fdata' = f /\ cWritten' = cWritten
    ELSE IF DOMAIN Launches(in)[n].box.lo # 1..in.dim
    THEN IF assertionsOn
         THEN rStatus' = "abort_dim" /\ rPending' = {} /\ fdata' = f /\ cWritten' = cWritten
         ELSE Undefined(f)
    ELSE IF in.dim > 3
    THEN rStatus' = "error_dim" /\ rPending' = {} /\ fdata' = f /\ cWritten' = cWritten
    ELSE IF in.dim = 1
    THEN rStatus' = "fortran" /\ rPending' = {} /\ fdata' = f /\ cWritten' = cWritten
    ELSE /\ rStatus' = "running"
         /\ rPending' = BoxIndices(IterationBox(in, Launches(in)[n]))
         /\ fdata' = f /\ cWritten' = cWritten

\* launch n of the call begins, with f the fine data so far: the box's
\* dimension is asserted, then the dimension selects the kernel
StartLaunch(in, n, f) ==
    IF n > Len(Launches(in))
    THEN rStatus' = "returned" /\ rPending' = {} /\ fdata' = f /\ cWritten' = cWritten
    ELSE IF DOMAIN Launches(in)[n].box.lo # 1..in.dim
    THEN IF assertionsOn
         THEN rStatus' = "abort_dim" /\ rPending' = {} /\ fdata' = f /\ cWritten' = cWritten
         ELSE Undefined(f)
    ELSE IF in.dim > 3
    THEN rStatus' = "error_dim" /\ rPending' = {} /\ fdata' = f /\ cWritten' = cWritten
    ELSE IF in.dim = 1
    THEN rStatus' = "fortran" /\ rPending' = {} /\ fdata' = f /\ cWritten' = cWritten
    ELSE /\ rStatus' = "running"
         /\ rPending' = BoxIndices(IterationBox(in, Launches(in)[n]))
         /\ fdata' = f /\ cWritten' = cWritten

\* refine is entered with the arguments in
RefineEnter(in) ==
    /\ rIn' = in
    /\ rpc' = 1
    /\ IF assertionsOn /\ EntryFailure(in) # "none"
       THEN rStatus' = EntryFailure(in) /\ rPending' = {} /\ fdata' = fdata /\ cWritten' = cWritten
       ELSE IF ~assertionsOn /\ EntryUndefined(in)
            THEN Undefined(fdata)
            ELSE StartLaunch(in, 1, fdata)
    /\ UNCHANGED <<rWritten, rConflict>>

\* arguments that satisfy every assertion
ValidCall(dim, ratio, depth, overlap) ==
    [called |-> TRUE, dim |-> dim, coarseDim |-> dim, ratio |-> ratio,
     depth |-> depth, cdepth |-> depth, overlapKind |-> "face",
     srcKind |-> "face", dstKind |-> "face", overlap |-> overlap]

RefineCall ==
    /\ rStatus = "idle"
    /\ \E dim \in Dims :
       \E ratio \in [1..dim -> 1..MaxRatio], corner \in Corners(dim),
          on \in OverlapAxes(dim), depth \in 0..MaxDepth, len \in 1..MaxCellLen :
          LET cell == [lo |-> corner, hi |-> [corner EXCEPT ![1] = corner[1] + len - 1]]
          IN  RefineEnter(ValidCall(dim, ratio, depth,
                             [a \in 1..dim |->
                                 IF (a - 1) \in on
                                 THEN <<toFaceBox(dim, cell, a - 1)>>
                                 ELSE <<>>]))
    /\ UNCHANGED <<sumVars, ci, widthVars, connVars, entryVars, idVars, rnd, drv>>

\* one iteration of the running parallel_for_all, in any order
KernelStep ==
    /\ rStatus = "running"
    /\ \E idx \in rPending :
          LET launch == Launches(rIn)[rpc]
              w == Lambda(fdata, rIn.dim, launch.axis, launch.d, idx,
                          lower(IterationBox(rIn, launch), 0), rIn.ratio)
          IN  /\ fdata' = WriteFine(fdata, <<launch.axis, launch.d, w.at>>, w.val)
              /\ rWritten' = rWritten \cup {w.at}
              /\ rConflict' = (rConflict \/ w.at \in rWritten)
              /\ rPending' = rPending \ {idx}
    /\ UNCHANGED <<rIn, rStatus, rpc, cWritten, sumVars, ci, widthVars, connVars, entryVars, idVars, rnd, drv>>

\* the parallel region is complete: the next launch, or the return
KernelJoin ==
    /\ rStatus = "running"
    /\ rPending = {}
    /\ rpc' = rpc + 1
    /\ rWritten' = {}
    /\ StartLaunch(rIn, rpc + 1, fdata)
    /\ UNCHANGED <<rIn, rConflict, sumVars, ci, widthVars, connVars, entryVars, idVars, rnd, drv>>

NextRefine == RefineCall \/ KernelStep \/ KernelJoin

SpecRefine == InitRefine /\ [][NextRefine]_vars

(***************************************************************************)
(* The index coarsening of the kernels, applied to one index and ratio.    *)
(***************************************************************************)
InitCoarsen ==
    /\ SumIdle
    /\ RefineIdle
    /\ WidthIdle
    /\ ConnIdle
    /\ EntryIdle
    /\ IdIdle
    /\ RoundIdle
    /\ DriverIdle
    /\ \E i \in (0 - MaxIndex)..MaxIndex, r \in 1..MaxCoarsenRatio :
          ci = [done |-> FALSE, i |-> i, r |-> r]

CoarsenApply ==
    /\ ~ci.done
    /\ ci' = [done |-> TRUE, i |-> ci.i, r |-> ci.r, c |-> CoarsenIndex(ci.i, ci.r)]
    /\ UNCHANGED <<sumVars, refineVars, widthVars, connVars, entryVars, idVars, rnd, drv>>

NextCoarsen == CoarsenApply

SpecCoarsen == InitCoarsen /\ [][NextCoarsen]_vars

(***************************************************************************)
(* TimeRefinementIntegratorConnectorWidthRequestor.                        *)
(* A width is an IntVector: one integer per axis.  Vectors are sequences;  *)
(* element ln of the code is position ln + 1.                              *)
(***************************************************************************)
IntVector(dim, v) == [c \in 1..dim |-> v]
getZero(dim) == IntVector(dim, 0)

\* std::vector::resize(n, fill): the first n elements stay, new ones are fill
resize(v, n, fill) ==
    IF Len(v) >= n THEN SubSeq(v, 1, n)
    ELSE v \o [i \in 1..(n - Len(v)) |-> fill]

\* mutant: the first entry is repeated for the levels past the list
TagBufferAtFirst(tag_buffer, ln, g) ==
    IF Len(tag_buffer) > ln THEN tag_buffer[ln + 1]
    ELSE IF tag_buffer # <<>> THEN tag_buffer[1] ELSE g

\* d_tag_buffer.size() > ln ? d_tag_buffer[ln] : d_tag_buffer.back()
\* back() of an empty vector is undefined: g is what it reads then
TagBufferAt(tag_buffer, ln, g) ==
    IF Len(tag_buffer) > ln THEN tag_buffer[ln + 1]
    ELSE IF tag_buffer # <<>> THEN tag_buffer[Len(tag_buffer)] ELSE g

RECURSIVE SelfLoop(_, _, _, _, _)
SelfLoop(self_connector_widths, ln, hier, tag_buffer, g) ==
    IF ln < hier.max_levels
    THEN SelfLoop(Append(self_connector_widths,
                         IntVector(hier.dim, TagBufferAt(tag_buffer, ln, g))),
                  ln + 1, hier, tag_buffer, g)
    ELSE self_connector_widths

\* mutant: the levels past the list get the zero width
computeUnreplicated(self_connector_widths, fine_connector_widths, hier, tag_buffer, g) ==
    [fine |-> resize(fine_connector_widths, hier.max_levels - 1, getZero(hier.dim)),
     self |-> [i \in 1..hier.max_levels |->
                 IntVector(hier.dim, IF i <= Len(tag_buffer) THEN tag_buffer[i] ELSE 0)]]

computeRequiredConnectorWidths(self_connector_widths, fine_connector_widths, hier, tag_buffer, g) ==
    [fine |-> resize(fine_connector_widths, hier.max_levels - 1, getZero(hier.dim)),
     self |-> SelfLoop(<<>>, 0, hier, tag_buffer, g)]

Hierarchy == [dim |-> HierDim, max_levels |-> maxLevels]

\* the loop reads d_tag_buffer[ln] when size() > ln and back() otherwise:
\* some level reads an element the tag buffer does not have
ReadsMissingElement(tag_buffer, hier) ==
    \E ln \in 0..(hier.max_levels - 1) :
        IF Len(tag_buffer) > ln THEN ~(ln + 1 \in DOMAIN tag_buffer)
        ELSE tag_buffer = <<>>

\* what back() of an empty tag buffer may read
Garbage == {0 - 1, 7}
GarbageFor(tag_buffer) == IF tag_buffer = <<>> THEN Garbage ELSE {0}

TagBuffers == UNION {[1..n -> 1..MaxTag] : n \in 0..MaxTagLen}

\* vectors a caller may pass in: empty, or holding widths of an earlier call
StaleVectors == {<<>>, <<IntVector(HierDim, 7)>>,
                 [i \in 1..MaxLevels |-> IntVector(HierDim, 7)]}

(***************************************************************************)
(* The hierarchy's negotiation: every registered requestor is asked for    *)
(* its widths and the hierarchy keeps the elementwise maximum.  A          *)
(* requestor whose list is shorter than the levels counts with its last    *)
(* entry for the levels past the list.                                     *)
(***************************************************************************)
VecA(dim) == [c \in 1..dim |-> IF c = 1 THEN 1 ELSE 2]
VecB(dim) == [c \in 1..dim |-> IF c = 1 THEN 2 ELSE 1]

Requestors == {"tri", "g1", "g2"}
RequestorOrder == <<"tri", "g1", "g2">>

\* the width lists of the other requestors
GenericList(r, class) ==
    IF r = "g1"
    THEN IF class = "self" THEN <<VecA(HierDim)>> ELSE <<VecB(HierDim)>>
    ELSE IF class = "self" THEN <<getZero(HierDim), VecB(HierDim)>>
         ELSE <<VecA(HierDim), getZero(HierDim)>>

Replicate(list, n) ==
    [i \in 1..n |-> IF i <= Len(list) THEN list[i] ELSE list[Len(list)]]

\* what requestor r returns to the hierarchy
Requested(r, hier, tag_buffer, g) ==
    IF r = "tri"
    THEN computeRequiredConnectorWidths(<<>>, <<>>, hier, tag_buffer, g)
    ELSE [self |-> Replicate(GenericList(r, "self"), hier.max_levels),
          fine |-> Replicate(GenericList(r, "fine"), hier.max_levels - 1)]

VecMax(a, b) == [c \in DOMAIN a |-> IF a[c] >= b[c] THEN a[c] ELSE b[c]]
ListMax(x, y) == [i \in DOMAIN x |-> VecMax(x[i], y[i])]

RECURSIVE NegotiateFrom(_, _, _, _, _, _)
NegotiateFrom(acc, k, registered, hier, tag_buffer, g) ==
    IF k > Len(RequestorOrder) THEN acc
    ELSE IF RequestorOrder[k] \in registered
         THEN LET w == Requested(RequestorOrder[k], hier, tag_buffer, g)
              IN  NegotiateFrom([self |-> ListMax(acc.self, w.self),
                                 fine |-> ListMax(acc.fine, w.fine)],
                                k + 1, registered, hier, tag_buffer, g)
         ELSE NegotiateFrom(acc, k + 1, registered, hier, tag_buffer, g)

NegotiatedWidths(registered, hier, tag_buffer, g) ==
    NegotiateFrom([self |-> [i \in 1..hier.max_levels |-> getZero(hier.dim)],
                   fine |-> [i \in 1..(hier.max_levels - 1) |-> getZero(hier.dim)]],
                  1, registered, hier, tag_buffer, g)

InitWidth ==
    /\ SumIdle
    /\ RefineIdle
    /\ CoarsenIdle
    /\ ConnIdle
    /\ EntryIdle
    /\ IdIdle
    /\ RoundIdle
    /\ DriverIdle
    /\ tagBuffer = <<>>
    /\ maxLevels \in 1..MaxLevels
    /\ lastSet = [made |-> FALSE]
    /\ wOut = [made |-> FALSE]
    /\ reg = {}
    /\ neg = [made |-> FALSE]

setTagBuffer ==
    /\ \E tag_buffer \in TagBuffers :
          /\ tagBuffer' = tag_buffer
          /\ lastSet' = [made |-> TRUE, tag_buffer |-> tag_buffer]
    /\ wOut' = [made |-> FALSE]
    /\ neg' = [made |-> FALSE]
    /\ UNCHANGED <<maxLevels, reg, sumVars, refineVars, ci, connVars, entryVars, idVars, rnd, drv>>

ComputeCall ==
    /\ \E selfIn \in StaleVectors, fineIn \in StaleVectors, g \in GarbageFor(tagBuffer) :
          LET r == computeRequiredConnectorWidths(selfIn, fineIn, Hierarchy, tagBuffer, g)
          IN  wOut' = [made |-> TRUE, self |-> r.self, fine |-> r.fine,
                       selfIn |-> selfIn, fineIn |-> fineIn, g |-> g,
                       outOfBounds |-> ReadsMissingElement(tagBuffer, Hierarchy),
                       prev |-> IF wOut.made
                                THEN [made |-> TRUE, self |-> wOut.self,
                                      fine |-> wOut.fine]
                                ELSE [made |-> FALSE]]
    /\ UNCHANGED <<tagBuffer, maxLevels, lastSet, reg, neg, sumVars, refineVars, ci, connVars, entryVars, idVars, rnd, drv>>

RegisterRequestor ==
    /\ \E r \in Requestors \ reg : reg' = reg \cup {r}
    /\ neg' = [made |-> FALSE]
    /\ UNCHANGED <<tagBuffer, maxLevels, lastSet, wOut, sumVars, refineVars, ci, connVars, entryVars, idVars, rnd, drv>>

Negotiate ==
    /\ \E g \in GarbageFor(tagBuffer) :
          LET w == NegotiatedWidths(reg, Hierarchy, tagBuffer, g)
          IN  neg' = [made |-> TRUE, self |-> w.self, fine |-> w.fine, g |-> g]
    /\ UNCHANGED <<tagBuffer, maxLevels, lastSet, wOut, reg, sumVars, refineVars, ci, connVars, entryVars, idVars, rnd, drv>>

NextWidth == setTagBuffer \/ ComputeCall \/ RegisterRequestor \/ Negotiate

SpecWidth == InitWidth /\ [][NextWidth]_vars

(***************************************************************************)
(* A connector.  It is built at the width its first consumer requires; a   *)
(* consumer that requires no more than its width on every axis uses it as  *)
(* it is, one that requires more on some axis has it rebuilt, at the       *)
(* elementwise maximum of its width and the required one.                  *)
(***************************************************************************)
VecLeq(a, b) == \A c \in DOMAIN a : a[c] <= b[c]

\* mutant: the rebuilt connector takes the required width alone
RebuiltWidthRequired(width, w) == w

RebuiltWidth(width, w) == VecMax(width, w)

ConsumerWidths == [1..HierDim -> 0..MaxWidth]

InitConnector ==
    /\ SumIdle
    /\ RefineIdle
    /\ CoarsenIdle
    /\ WidthIdle
    /\ ConnIdle
    /\ EntryIdle
    /\ IdIdle
    /\ RoundIdle
    /\ DriverIdle

UseConnector ==
    /\ \E w \in ConsumerWidths :
          IF ~conn.built
          THEN /\ conn' = [built |-> TRUE, width |-> w]
               /\ lastUse' = [made |-> TRUE, w |-> w, first |-> TRUE, rebuilt |-> FALSE,
                              before |-> w]
          ELSE IF VecLeq(w, conn.width)
               THEN /\ conn' = conn
                    /\ lastUse' = [made |-> TRUE, w |-> w, first |-> FALSE,
                                   rebuilt |-> FALSE, before |-> conn.width]
               ELSE /\ conn' = [built |-> TRUE, width |-> RebuiltWidth(conn.width, w)]
                    /\ lastUse' = [made |-> TRUE, w |-> w, first |-> FALSE,
                                   rebuilt |-> TRUE, before |-> conn.width]
    /\ UNCHANGED <<sumVars, refineVars, ci, widthVars, entryVars, idVars, rnd, drv>>

NextConnector == UseConnector

SpecConnector == InitConnector /\ [][NextConnector]_vars

(***************************************************************************)
(* The entry points called with any arguments, in a build that checks its  *)
(* assertions and in one that does not.  TBOX_ASSERT and the dimension     *)
(* assertions abort the program in the first and are compiled out in the   *)
(* second, where the code after them runs on the arguments as they are.    *)
(***************************************************************************)
\* std::make_shared<OuternodeSumTransaction>(...)
MakeTransaction(a) ==
    [dst_level |-> a.dst_level, src_level |-> a.src_level, overlap |-> a.overlap,
     dst_node |-> a.dst_node, src_node |-> a.src_node,
     refine_data |-> a.refine_data, item_id |-> a.item_id]

\* the assertions of both overloads
AssertsHold(a) ==
    AllocateAsserts(a.dst_level, a.src_level, a.overlap, a.dst_node, a.src_node, a.refine_data)

\* allocate with clip box: the outcomes of a call
allocateFull(check, a, box, use_time_interpolation) ==
    IF check /\ ~AssertsHold(a) THEN {[status |-> "aborted"]}
    ELSE IF check
         THEN {[status |-> "returned",
                txn |-> Allocate(a.dst_level, a.src_level, a.overlap, a.dst_node,
                                 a.src_node, a.refine_data, a.item_id,
                                 box, use_time_interpolation).txn]}
         ELSE {[status |-> "returned", txn |-> MakeTransaction(a)]}

\* mutant: the short overload passes item 0 on
allocateShortFirstItem(check, a) ==
    IF check /\ ~AssertsHold(a) THEN {[status |-> "aborted"]}
    ELSE IF IsNull(a.dst_level)
         THEN {[status |-> "crashed"]}
                  \cup allocateFull(check, [a EXCEPT !.item_id = 0], EmptyBox(1), FALSE)
         ELSE allocateFull(check, [a EXCEPT !.item_id = 0], EmptyBox(a.dst_level.dim), FALSE)

\* allocate without clip box: it asserts, then calls the other overload with
\* hier::Box(dst_level->getDim()) and false; dst_level->getDim() through a
\* null pointer is undefined
allocateShort(check, a) ==
    IF check /\ ~AssertsHold(a) THEN {[status |-> "aborted"]}
    ELSE IF IsNull(a.dst_level)
         THEN {[status |-> "crashed"]} \cup allocateFull(check, a, EmptyBox(1), FALSE)
         ELSE allocateFull(check, a, EmptyBox(a.dst_level.dim), FALSE)

\* the arguments of the calls made
LevelDims == {2, 3}
ArgLevels(level) == {NullPtr} \cup {[level EXCEPT !.dim = d] : d \in LevelDims}
ArgBoxes == {[dim |-> d, localId |-> id] : d \in LevelDims, id \in {0 - 1, 1}}
RefineDataTwo ==
    [isNull |-> FALSE, items |-> <<[src |-> 0, scratch |-> ScratchComp],
                                   [src |-> 1, scratch |-> 1]>>]
AllocateArgs ==
    [dst_level : ArgLevels(DstLevel), src_level : ArgLevels(SrcLevel),
     overlap : {NullPtr, OverlapOf({}), OverlapOf({"shared"})},
     dst_node : ArgBoxes, src_node : ArgBoxes,
     refine_data : {NullPtr, RefineDataTwo}, item_id : {0, 1}]
ClipBoxes == {EmptyBox(2), [lo |-> <<0, 0>>, hi |-> <<3, 3>>]}

InitEntry ==
    /\ dstData = [p \in DstPatches |-> [n \in Comps |-> [node \in Nodes |-> 5]]]
    /\ srcData = [s \in SrcPatches |-> [shared |-> 3, unshared |-> 3]]
    /\ sched = {}
    /\ pending = {}
    /\ phase = "idle"
    /\ preCall = NoCall
    /\ RefineIdle
    /\ CoarsenIdle
    /\ WidthIdle
    /\ ConnIdle
    /\ assertionsOn \in BOOLEAN
    /\ acall = [made |-> FALSE]
    /\ IdIdle
    /\ RoundIdle
    /\ DriverIdle

AllocateFullCall ==
    /\ ~acall.made
    /\ rStatus = "idle"
    /\ \E a \in AllocateArgs, box \in ClipBoxes, uti \in BOOLEAN :
          \E out \in allocateFull(assertionsOn, a, box, uti) :
             acall' = [made |-> TRUE, overload |-> "full", a |-> a, box |-> box,
                       use_time_interpolation |-> uti, out |-> out, executed |-> FALSE]
    /\ UNCHANGED <<assertionsOn, sumVars, refineVars, ci, widthVars, connVars, idVars, rnd, drv>>

AllocateShortCall ==
    /\ ~acall.made
    /\ rStatus = "idle"
    /\ \E a \in AllocateArgs :
          \E out \in allocateShort(assertionsOn, a) :
             acall' = [made |-> TRUE, overload |-> "short", a |-> a, out |-> out,
                       executed |-> FALSE]
    /\ UNCHANGED <<assertionsOn, sumVars, refineVars, ci, widthVars, connVars, idVars, rnd, drv>>

\* the transaction allocate returned for valid arguments is executed
ExecuteAllocated ==
    /\ acall.made
    /\ ~acall.executed
    /\ acall.out.status = "returned"
    /\ AssertsHold(acall.a)
    /\ dstData' = ExecuteTransaction(acall.out.txn, dstData)
    /\ acall' = [acall EXCEPT !.executed = TRUE]
    /\ UNCHANGED <<assertionsOn, srcData, sched, pending, phase, preCall,
                   refineVars, ci, widthVars, connVars, idVars, rnd, drv>>

\* the arguments refine is called with: a cell of the fine patch and the
\* axes the overlap has its face box for, and any of the defects the
\* assertions are there for
OtherDim(dim) == IF dim = 1 THEN 2 ELSE dim - 1
BadBox(dim) == [lo |-> IntVector(OtherDim(dim), 0), hi |-> IntVector(OtherDim(dim), 0)]
EntryCorner(dim) == [c \in 1..dim |-> ((c - 1) % 3) - 2]

EntryOverlap(dim, on, bad) ==
    LET cell  == [lo |-> EntryCorner(dim), hi |-> EntryCorner(dim)]
        first == IF on = {} THEN 0 ELSE CHOOSE a \in on : \A b \in on : a <= b
        base(a) == IF (a - 1) \in on THEN <<toFaceBox(dim, cell, a - 1)>> ELSE <<>>
    IN  [a \in 1..dim |->
            IF a - 1 = first /\ bad = "first" THEN <<BadBox(dim)>> \o base(a)
            ELSE IF a - 1 = first /\ bad = "last" THEN base(a) \o <<BadBox(dim)>>
            ELSE base(a)]

RefineAnyCall ==
    /\ rStatus = "idle"
    /\ ~acall.made
    /\ \E dim \in 1..MaxDim, r \in 1..MaxRatio, depth \in 1..MaxDepth, cdepth \in 1..MaxDepth :
       \E coarseDim \in {dim, OtherDim(dim)}, ratioDim \in {dim, OtherDim(dim)},
          on \in OverlapAxes(dim), bad \in {"none", "first", "last"},
          overlapKind \in {"face", "node"}, srcKind \in {"face", "cell"},
          dstKind \in {"face", "cell"} :
          RefineEnter([called |-> TRUE, dim |-> dim, coarseDim |-> coarseDim,
                       ratio |-> IntVector(ratioDim, r), depth |-> depth,
                       cdepth |-> cdepth, overlapKind |-> overlapKind,
                       srcKind |-> srcKind, dstKind |-> dstKind,
                       overlap |-> EntryOverlap(dim, on, bad)])
    /\ UNCHANGED <<sumVars, ci, widthVars, connVars, entryVars, idVars, rnd, drv>>

\* dimension 1: the launch is one call of the Fortran kernel
FortranCall ==
    /\ rStatus = "fortran"
    /\ LET launch == Launches(rIn)[rpc]
           k == ScalarKernel(rIn, launch)
           f == [x \in (DOMAIN fdata) \cup {<<launch.axis, launch.d, idx>> : idx \in DOMAIN k} |->
                    IF x[1] = launch.axis /\ x[2] = launch.d /\ x[3] \in DOMAIN k
                    THEN k[x[3]] ELSE fdata[x]]
       IN  StartLaunch(rIn, rpc + 1, f)
    /\ rpc' = rpc + 1
    /\ UNCHANGED <<rIn, rWritten, rConflict, sumVars, ci, widthVars, connVars, entryVars, idVars, rnd, drv>>

NextEntry ==
    \/ AllocateFullCall
    \/ AllocateShortCall
    \/ ExecuteAllocated
    \/ RefineAnyCall
    \/ KernelStep
    \/ KernelJoin
    \/ FortranCall

SpecEntry == InitEntry /\ [][NextEntry]_vars

(***************************************************************************)
(* Identifiers in use: two identifiers of one type are made, from valid    *)
(* values or from the type's constants, and compared.  An identifier is    *)
(* ordered by its integer value.                                           *)
(***************************************************************************)
IdTypes == {"BlockId", "PeriodicId"}
IdValues(type) == (0..MaxIdValue) \cup {idc[type].invalid, idc[type].zero}

InitIds ==
    /\ SumIdle
    /\ RefineIdle
    /\ CoarsenIdle
    /\ WidthIdle
    /\ ConnIdle
    /\ EntryIdle
    /\ idc = StaticIds
    /\ idw = [made |-> FALSE]
    /\ RoundIdle
    /\ DriverIdle

CompareIds ==
    /\ \E type \in IdTypes :
       \E a \in IdValues(type), b \in IdValues(type) :
          idw' = [made |-> TRUE, type |-> type, a |-> a, b |-> b,
                  less |-> a < b, equal |-> a = b]
    /\ UNCHANGED <<idc, sumVars, refineVars, ci, widthVars, connVars, entryVars, rnd, drv>>

NextIds == CompareIds

SpecIds == InitIds /\ [][NextIds]_vars

(***************************************************************************)
(* A synchronization round of a schedule on one process.  The sends are    *)
(* issued without blocking; the local transactions execute; then the       *)
(* receives are awaited, each unpacked when its message has arrived.  A    *)
(* failure of the communication aborts the process.                        *)
(***************************************************************************)
Sends == 1..NumSends
Receives == 1..NumReceives
Locals == 1..NumLocals

\* mutant: the round goes on once a send has been issued
SomeSendIssued(issued) == issued # {}

AllSendsIssued(issued) == issued = Sends

\* mutant: the round is complete when the local transactions are
CompleteWhenLocalDone(r) == r.localDone = Locals

RoundComplete(r) == r.localDone = Locals /\ r.unpacked = Receives

InitRound ==
    /\ SumIdle
    /\ RefineIdle
    /\ CoarsenIdle
    /\ WidthIdle
    /\ ConnIdle
    /\ EntryIdle
    /\ IdIdle
    /\ rnd = NoRound
    /\ DriverIdle

RoundRest == <<sumVars, refineVars, ci, widthVars, connVars, entryVars, idVars, drv>>

StartRound ==
    /\ rnd.phase \in {"idle", "complete"}
    /\ rnd' = [NoRound EXCEPT !.phase = "sending"]
    /\ UNCHANGED RoundRest

IssueSend ==
    /\ rnd.phase = "sending"
    /\ \E m \in Sends \ rnd.issued :
          rnd' = [rnd EXCEPT !.issued = rnd.issued \cup {m},
                             !.phase = IF AllSendsIssued(rnd.issued \cup {m})
                                       THEN "local" ELSE "sending"]
    /\ UNCHANGED RoundRest

ExecuteLocal ==
    /\ rnd.phase = "local"
    /\ \E t \in Locals \ rnd.localDone :
          rnd' = [rnd EXCEPT !.localDone = rnd.localDone \cup {t},
                             !.phase = IF rnd.localDone \cup {t} = Locals
                                       THEN "waiting" ELSE "local"]
    /\ UNCHANGED RoundRest

\* the wait for a receive: it blocks until the message has arrived
AwaitReceive ==
    /\ rnd.phase = "waiting"
    /\ rnd.awaiting = 0
    /\ \E m \in Receives \ rnd.unpacked :
          rnd' = [rnd EXCEPT !.awaiting = m, !.blocked = m \notin rnd.arrived]
    /\ UNCHANGED RoundRest

\* a message of another process arrives
Arrive ==
    /\ rnd.phase \in {"sending", "local", "waiting"}
    /\ \E m \in Receives \ rnd.arrived :
          rnd' = [rnd EXCEPT !.arrived = rnd.arrived \cup {m},
                             !.blocked = IF rnd.awaiting = m THEN FALSE ELSE rnd.blocked]
    /\ UNCHANGED RoundRest

Unpack ==
    /\ rnd.phase = "waiting"
    /\ rnd.awaiting # 0
    /\ rnd.awaiting \in rnd.arrived
    /\ rnd' = [rnd EXCEPT !.unpacked = rnd.unpacked \cup {rnd.awaiting}, !.awaiting = 0]
    /\ UNCHANGED RoundRest

FinishRound ==
    /\ rnd.phase = "waiting"
    /\ rnd.awaiting = 0
    /\ RoundComplete(rnd)
    /\ rnd' = [rnd EXCEPT !.phase = "complete"]
    /\ UNCHANGED RoundRest

\* a message is lost, or a rank does not match: the process aborts
FailRound ==
    /\ rnd.phase \in {"sending", "local", "waiting"}
    /\ rnd' = [rnd EXCEPT !.phase = "aborted", !.blocked = FALSE]
    /\ UNCHANGED RoundRest

NextRound ==
    \/ StartRound
    \/ IssueSend
    \/ ExecuteLocal
    \/ AwaitReceive
    \/ Arrive
    \/ Unpack
    \/ FinishRound
    \/ FailRound

SpecRound == InitRound /\ [][NextRound]_vars

(***************************************************************************)
(* The driver's main: the time step loop and the exit status.  Times are   *)
(* doubles; the integrator counts its steps and has steps remaining while  *)
(* the count is below its maximum.                                         *)
(***************************************************************************)
Intervals == (0 - 1)..MaxInterval
Dts == 1..MaxDt

\* mutant: a restart file is written whatever the directory name is
WriteRestartAnyName(restart_interval, dirname_empty) == restart_interval > 0

\* const bool write_restart = (restart_interval > 0) && !(restart_write_dirname.empty())
WriteRestart(restart_interval, dirname_empty) ==
    restart_interval > 0 /\ ~dirname_empty

\* (interval > 0) && (iteration_num % interval) == 0
AtDumpStep(interval, iteration_num) ==
    IF interval > 0 THEN iteration_num % interval = 0 ELSE FALSE

\* the modulo of the restart test, which write_restart guards
RestartModulo(write_restart, restart_interval) ==
    IF write_restart THEN {restart_interval} ELSE {}

\* the modulo of the dump test, which the test of the interval guards
DumpModulo(interval) == IF interval > 0 THEN {interval} ELSE {}

\* mutant: the time grows by the step the integrator returned
AdvanceByReturned(loop_time, dt_now, dt_new) == FAdd(loop_time, dt_new)

\* loop_time += dt_now
AdvanceLoopTime(loop_time, dt_now, dt_new) == FAdd(loop_time, dt_now)

\* time_integrator->stepsRemaining()
stepsRemaining(d) == d.step < d.max_steps

\* (loop_time < loop_time_end) && time_integrator->stepsRemaining()
LoopCondition(d) == d.loop_time < d.loop_time_end /\ stepsRemaining(d)

\* what the autotester may add to num_failures
EvalTestData(testing) == IF testing THEN {0, 1} ELSE {0}

InitDriver ==
    /\ SumIdle
    /\ RefineIdle
    /\ CoarsenIdle
    /\ WidthIdle
    /\ ConnIdle
    /\ EntryIdle
    /\ IdIdle
    /\ RoundIdle
    /\ \E testing \in BOOLEAN, hdf5 \in BOOLEAN, input_interval \in Intervals,
          dirname_empty \in BOOLEAN, matlab_dump_interval \in Intervals,
          time \in {0, Big}, dt \in Dts, span \in {0, 2 * MaxDt},
          step \in 0..1, max_steps \in 1..MaxSteps :
          LET restart_interval == IF testing /\ ~hdf5 THEN 0 ELSE input_interval
          IN  drv = [pc |-> "start", testing |-> testing,
                     restart_interval |-> restart_interval,
                     dirname_empty |-> dirname_empty,
                     write_restart |-> WriteRestart(restart_interval, dirname_empty),
                     matlab_dump_interval |-> matlab_dump_interval,
                     loop_time |-> time, loop_time_end |-> time + span,
                     dt_now |-> dt, first_step |-> step, step |-> step,
                     max_steps |-> max_steps, num_failures |-> 0,
                     call |-> [made |-> FALSE], restarts |-> {}, dumps |-> {},
                     moduli |-> {}]

DriverRest == <<sumVars, refineVars, ci, widthVars, connVars, entryVars, idVars, rnd>>

\* the autotester's check of the initial state, before the loop
BeginLoop ==
    /\ drv.pc = "start"
    /\ \E failed \in EvalTestData(drv.testing) :
          drv' = [drv EXCEPT !.pc = "loop", !.num_failures = drv.num_failures + failed]
    /\ UNCHANGED DriverRest

\* one pass of the loop's body
TimeStep ==
    /\ drv.pc = "loop"
    /\ LoopCondition(drv)
    /\ \E dt_new \in Dts, failed \in EvalTestData(drv.testing) :
          LET iteration_num == drv.step + 1
              restart == IF drv.write_restart
                         THEN iteration_num % drv.restart_interval = 0
                         ELSE FALSE
              dump == AtDumpStep(drv.matlab_dump_interval, iteration_num)
          IN  drv' = [drv EXCEPT
                  !.call = [made |-> TRUE, n |-> iteration_num, dt |-> drv.dt_now,
                            returned |-> dt_new, time |-> drv.loop_time],
                  !.loop_time = AdvanceLoopTime(drv.loop_time, drv.dt_now, dt_new),
                  !.dt_now = dt_new,
                  !.step = drv.step + 1,
                  !.restarts = IF restart THEN drv.restarts \cup {iteration_num}
                               ELSE drv.restarts,
                  !.dumps = IF dump THEN drv.dumps \cup {iteration_num} ELSE drv.dumps,
                  !.moduli = drv.moduli
                                \cup RestartModulo(drv.write_restart, drv.restart_interval)
                                \cup DumpModulo(drv.matlab_dump_interval),
                  !.num_failures = drv.num_failures + failed]
    /\ UNCHANGED DriverRest

\* the loop is left; PASSED is printed when nothing failed; main returns
ExitLoop ==
    /\ drv.pc = "loop"
    /\ ~LoopCondition(drv)
    /\ drv' = [pc |-> "returned", testing |-> drv.testing,
               restart_interval |-> drv.restart_interval,
               dirname_empty |-> drv.dirname_empty,
               write_restart |-> drv.write_restart,
               matlab_dump_interval |-> drv.matlab_dump_interval,
               loop_time |-> drv.loop_time, loop_time_end |-> drv.loop_time_end,
               dt_now |-> drv.dt_now, first_step |-> drv.first_step, step |-> drv.step,
               max_steps |-> drv.max_steps, num_failures |-> drv.num_failures,
               call |-> drv.call, restarts |-> drv.restarts, dumps |-> drv.dumps,
               moduli |-> drv.moduli,
               passed |-> (drv.num_failures = 0), status |-> drv.num_failures]
    /\ UNCHANGED DriverRest

NextDriver == BeginLoop \/ TimeStep \/ ExitLoop

SpecDriver == InitDriver /\ [][NextDriver]_vars

(***************************************************************************)
(* Properties of the sum round and of the factory.                         *)
(***************************************************************************)
RECURSIVE SumOver(_)
SumOver(S) == IF S = {} THEN 0
              ELSE LET s == CHOOSE x \in S : TRUE
                   IN  srcData[s].shared + SumOver(S \ {s})

\* the contributions in ascending patch order, added as doubles from 0.0
RECURSIVE FoldUpTo(_)
FoldUpTo(n) == IF n = 0 THEN 0 ELSE FAdd(FoldUpTo(n - 1), srcData[n].shared)

\* every value that adding the contributions of S to 0.0 in some order gives
RECURSIVE Reach(_)
Reach(S) == IF S = {} THEN {0}
            ELSE UNION {{FAdd(x, srcData[s].shared) : x \in Reach(S \ {s})} : s \in S}

SubsetSumsExact == \A S \in SUBSET SrcPatches : Representable(SumOver(S))

SharedValue(d) == dstData[d][ScratchComp]["shared"]

ExecutedInto(d) == {t.src_node.localId : t \in {u \in sched \ pending : u.dst_node.localId = d}}

C2_ZeroFill ==
    (preCall.made /\ preCall.ok)
        => \A p \in DstPatches : \A n \in preCall.sel : \A node \in Nodes :
              dstData[p][n][node] = 0

\* a call with fill_time 1 has zeroed a selected component that held
\* non-zero values, and left an unselected one non-zero
C2_Witness ==
    /\ preCall.made /\ preCall.ok /\ preCall.fill_time = 1
    /\ \E n \in preCall.sel : \A p \in DstPatches :
          preCall.before[p][n]["shared"] # 0 /\ dstData[p][n]["shared"] = 0
    /\ \E n \in Comps \ preCall.sel : dstData[1][n]["shared"] # 0

\* C3: inside a round the scratch component holds, on every destination
\* patch, a sum of exactly the contributions executed so far, added from
\* 0.0: the zero-fill came before the first transaction, none came after
\* it, and the round is complete only when every transaction has run.
C3_RoundOrdering ==
    /\ phase \in {"executing", "complete"} =>
          \A d \in DstPatches :
              /\ SharedValue(d) \in Reach(ExecutedInto(d))
              /\ dstData[d][ScratchComp]["unshared"] = 0
    /\ phase = "complete" => pending = {} /\ sched # {}
    /\ phase = "executing" /\ pending = sched => preCall.made /\ preCall.ok

\* a round is under way: some but not all of its transactions have run, one
\* destination patch holds a non-zero partial sum and another is still 0.0
C3_Witness ==
    /\ phase = "executing"
    /\ pending # {} /\ pending # sched
    /\ \E d \in DstPatches : SharedValue(d) # 0 /\ ExecutedInto(d) # {}
    /\ \E d \in DstPatches : ExecutedInto(d) = {} /\ SharedValue(d) = 0

(***************************************************************************)
(* Properties of refine and of the index coarsening.                       *)
(***************************************************************************)
\* the places of the fine data the overlap names
DestLocs(in) ==
    UNION {UNION {{<<a, d, idx>> : d \in 0..(in.depth - 1),
                                   idx \in BoxIndices(in.overlap[a + 1][b])} :
                    b \in 1..Len(in.overlap[a + 1])} :
             a \in Axes(in.dim)}

\* the coarse index of a fine face index: on each physical axis the floor of
\* the fine index over that axis's ratio
FloorCoarse(in, axis, idx) ==
    [c \in 1..in.dim |-> idx[c] \div in.ratio[((axis + c - 1) % in.dim) + 1]]

\* C4: when refine has returned, every fine face value in the destination
\* overlap is the coarse face value of the same normal axis and depth at the
\* index floor(i_d / r_d) on every physical axis d.
C4_ConstantRefineExact ==
    rStatus = "returned" =>
        \A loc \in DestLocs(rIn) :
            FineAt(fdata, loc) = CoarseAt(loc[1], loc[2], FloorCoarse(rIn, loc[1], loc[3]))

\* C5: when refine has returned, the fine data the data-parallel path has
\* left is the fine data the scalar path leaves for the same arguments.
C5_PathsAgree ==
    rStatus = "returned" => fdata = ScalarRefine(rIn)

\* C6: the coarse index computed for an index i and a ratio r is the floor
\* of i / r: it is the one c with r * c <= i < r * (c + 1).
C6_FloorDivision ==
    ci.done =>
        /\ ci.c = ci.i \div ci.r
        /\ ci.r * ci.c <= ci.i
        /\ ci.i < ci.r * (ci.c + 1)

\* index -1 with ratio 3 has been coarsened to -1
C6_Witness == ci.done /\ ci.i = 0 - 1 /\ ci.r = 3 /\ ci.c = 0 - 1

\* C7: in a parallel_for_all no iteration writes an index another one has
\* written, the iterations done have written exactly their own indices, and
\* when refine has returned the fine data is what running the iterations
\* one after the other leaves, whatever the interleaving was.
C7_NoWriteConflict ==
    /\ ~rConflict
    /\ rStatus = "running" =>
          rWritten = BoxIndices(IterationBox(rIn, Launches(rIn)[rpc])) \ rPending
    /\ rStatus = "returned" => fdata = SequentialRefine(rIn)

\* refine has returned after a kernel of at least four iterations
C7_Witness ==
    /\ rStatus = "returned"
    /\ \E n \in 1..Len(Launches(rIn)) :
          Cardinality(BoxIndices(IterationBox(rIn, Launches(rIn)[n]))) >= 4
    /\ DOMAIN fdata = DestLocs(rIn)


(***************************************************************************)
(* Properties of the connector widths.                                     *)
(***************************************************************************)
ReplicatedEntry(tb, ln) == IF ln < Len(tb) THEN tb[ln + 1] ELSE tb[Len(tb)]

\* C8: after setTagBuffer(tb) with tb non-empty, computeRequiredConnectorWidths
\* returns one self width per level 0..max_levels-1; the entry of level ln is
\* tb[ln] on every axis when ln < size(tb), and tb's last entry when
\* ln >= size(tb).
C8_ShortListReplication ==
    (wOut.made /\ lastSet.made /\ lastSet.tag_buffer # <<>>) =>
        /\ Len(wOut.self) = maxLevels
        /\ \A ln \in 0..(maxLevels - 1) :
              wOut.self[ln + 1] =
                  IntVector(HierDim, ReplicatedEntry(lastSet.tag_buffer, ln))

C8_Witness ==
    /\ wOut.made
    /\ lastSet.made
    /\ lastSet.tag_buffer = <<2, 1>>
    /\ maxLevels = 3
    /\ wOut.selfIn # <<>>
    /\ wOut.self = <<IntVector(HierDim, 2), IntVector(HierDim, 1), IntVector(HierDim, 1)>>

\* the list a requestor supplies, before any replication
SuppliedList(r, class) ==
    IF r = "tri"
    THEN IF class = "fine" THEN <<getZero(HierDim)>>
         ELSE IF tagBuffer # <<>>
              THEN [i \in 1..Len(tagBuffer) |-> IntVector(HierDim, tagBuffer[i])]
              ELSE <<IntVector(HierDim, neg.g)>>
    ELSE GenericList(r, class)

WidthOf(list, L) == list[IF L + 1 <= Len(list) THEN L + 1 ELSE Len(list)]

SetMax(S) == CHOOSE m \in S : \A x \in S : x <= m

MaxOverRequestors(class, L, c) ==
    SetMax({0} \cup {WidthOf(SuppliedList(r, class), L)[c] : r \in reg})

\* C9: the width the hierarchy uses at level L for a connector class (self or
\* fine) is, on every axis, the maximum over the registered requestors of
\* their widths for L; a requestor whose list is shorter than the levels
\* counts with its last entry for the deeper levels.
C9_WidthNegotiation ==
    neg.made =>
        /\ Len(neg.self) = maxLevels
        /\ Len(neg.fine) = maxLevels - 1
        /\ \A L \in 0..(maxLevels - 1) : \A c \in 1..HierDim :
              neg.self[L + 1][c] = MaxOverRequestors("self", L, c)
        /\ \A L \in 0..(maxLevels - 2) : \A c \in 1..HierDim :
              neg.fine[L + 1][c] = MaxOverRequestors("fine", L, c)

C9_Witness ==
    /\ neg.made
    /\ reg = Requestors
    /\ tagBuffer = <<1>>
    /\ maxLevels = 3
    /\ neg.self[3] = IntVector(HierDim, 2)
    /\ neg.fine[2] = VecB(HierDim)

\* C10: the connector's width never decreases on any axis; a consumer that
\* requires at most the width W on every axis leaves the connector as it
\* is, and the connector is rebuilt exactly when the consumer requires more
\* than W on some axis.
C10_ConnectorMonotone ==
    [][ /\ conn.built => (conn'.built /\ VecLeq(conn.width, conn'.width))
        /\ (lastUse'.made /\ ~lastUse'.first) =>
              /\ lastUse'.before = conn.width
              /\ lastUse'.rebuilt <=> ~VecLeq(lastUse'.w, lastUse'.before)
              /\ ~lastUse'.rebuilt => conn' = conn
              /\ lastUse'.rebuilt => conn' # conn
              /\ VecLeq(lastUse'.w, conn'.width) ]_vars

C10_Witness ==
    /\ lastUse.made
    /\ lastUse.rebuilt
    /\ ~VecLeq(lastUse.before, lastUse.w)
    /\ conn.width = VecMax(lastUse.before, lastUse.w)

(***************************************************************************)
(* Properties of the entry points.                                         *)
(***************************************************************************)
\* a precondition the claim names is violated: a null argument, a negative id
NamedPreconditionViolated(a) ==
    \/ IsNull(a.dst_level)
    \/ IsNull(a.src_level)
    \/ IsNull(a.overlap)
    \/ IsNull(a.refine_data)
    \/ a.dst_node.localId < 0
    \/ a.src_node.localId < 0

AllDimsEqual(a) ==
    /\ a.src_level.dim = a.dst_level.dim
    /\ a.dst_node.dim = a.dst_level.dim
    /\ a.src_node.dim = a.dst_level.dim

BuiltFromArguments(a, txn) ==
    /\ txn.dst_level = a.dst_level
    /\ txn.src_level = a.src_level
    /\ txn.overlap = a.overlap
    /\ txn.dst_node = a.dst_node
    /\ txn.src_node = a.src_node
    /\ txn.refine_data = a.refine_data
    /\ txn.item_id = a.item_id

ReturnsTransactionWhenValid ==
    (~NamedPreconditionViolated(acall.a) /\ AllDimsEqual(acall.a)) =>
        /\ acall.out.status = "returned"
        /\ BuiltFromArguments(acall.a, acall.out.txn)

\* C11 as stated: in every build, either overload of allocate called with a
\* null level, overlap or refine data, or with a negative local id, aborts
\* and returns no transaction; called with all preconditions holding it
\* returns a transaction built from exactly the arguments passed.
C11_AllocatePreconditions ==
    acall.made =>
        /\ NamedPreconditionViolated(acall.a) => acall.out.status = "aborted"
        /\ ReturnsTransactionWhenValid

\* C11 amended: the abort is that of a build that checks its assertions.
C11_AllocatePreconditionsChecked ==
    acall.made =>
        /\ (assertionsOn /\ NamedPreconditionViolated(acall.a))
               => acall.out.status = "aborted"
        /\ ReturnsTransactionWhenValid

\* the short overload has aborted on a negative source id alone, in the
\* checking build
C11_Witness ==
    /\ acall.made
    /\ assertionsOn
    /\ acall.overload = "short"
    /\ acall.a.src_node.localId < 0
    /\ acall.a.dst_node.localId >= 0
    /\ ~IsNull(acall.a.dst_level) /\ ~IsNull(acall.a.src_level)
    /\ ~IsNull(acall.a.overlap) /\ ~IsNull(acall.a.refine_data)
    /\ acall.out.status = "aborted"

\* the box of the whole destination level
FullDstLevelBox == [lo |-> <<0, 0>>, hi |-> <<3, 3>>]

\* C12: for valid arguments the short overload of allocate returns what the
\* full overload returns for the same arguments, the clip box being the full
\* destination-level box and use_time_interpolation false.
C12_OverloadEquivalence ==
    (acall.made /\ acall.overload = "short" /\ AssertsHold(acall.a)) =>
        {acall.out} = allocateFull(assertionsOn, acall.a, FullDstLevelBox, FALSE)

C12_Witness ==
    /\ acall.made
    /\ acall.overload = "short"
    /\ AssertsHold(acall.a)
    /\ acall.out.status = "returned"
    /\ acall.out.txn.item_id = 1
    /\ acall.out.txn.dst_level.dim = 3

\* the launches of the boxes before the first box of another dimension
RECURSIVE GoodPrefix(_, _)
GoodPrefix(in, n) ==
    IF n > Len(Launches(in)) \/ DOMAIN Launches(in)[n].box.lo # 1..in.dim
    THEN n - 1
    ELSE GoodPrefix(in, n + 1)

HasBadBox(in) == GoodPrefix(in, 1) < Len(Launches(in))

\* the fine locations the launches 1..n write
WrittenBy(in, n) ==
    UNION {{<<Launches(in)[m].axis, Launches(in)[m].d, idx>> :
               idx \in BoxIndices(Launches(in)[m].box)} : m \in 1..n}

\* the other assertions of refine's entry hold
OnlyDimsAtFault(in) ==
    /\ in.overlapKind = "face"
    /\ in.srcKind = "face"
    /\ in.dstKind = "face"
    /\ in.cdepth = in.depth

PatchDimsDiffer(in) == in.coarseDim # in.dim \/ Len(in.ratio) # in.dim

AllocateDimsDiffer ==
    /\ acall.made
    /\ ~NamedPreconditionViolated(acall.a)
    /\ ~AllDimsEqual(acall.a)

\* C13 as stated: allocate called with levels and boxes not all of one
\* dimension aborts and creates no transaction; refine called with a coarse
\* patch, a ratio or a destination overlap box of another dimension than the
\* fine patch fails with the dimension assertion, never returns, and writes
\* no fine data.
C13_DimensionRejection ==
    /\ AllocateDimsDiffer => acall.out.status = "aborted"
    /\ (rIn.called /\ OnlyDimsAtFault(rIn) /\ (PatchDimsDiffer(rIn) \/ HasBadBox(rIn))) =>
          /\ fdata = <<>>
          /\ rStatus \in {"running", "fortran", "abort_dim", "error_dim"}
          /\ rStatus = "error_dim" => rIn.dim > 3

\* C13 amended: in the build that checks its assertions; a destination box
\* of another dimension is rejected when the loop reaches it, after the
\* boxes before it have been refined.
C13_DimensionRejectionChecked ==
    assertionsOn =>
        /\ AllocateDimsDiffer => acall.out.status = "aborted"
        /\ (rIn.called /\ OnlyDimsAtFault(rIn) /\ PatchDimsDiffer(rIn)) =>
              (fdata = <<>> /\ rStatus = "abort_dim")
        /\ (rIn.called /\ EntryFailure(rIn) = "none" /\ HasBadBox(rIn)) =>
              /\ rStatus \in {"running", "fortran", "abort_dim", "error_dim"}
              /\ rStatus = "error_dim" => rIn.dim > 3
              /\ rStatus = "abort_dim" =>
                    DOMAIN fdata = WrittenBy(rIn, GoodPrefix(rIn, 1))

\* refine has aborted at a box of another dimension after refining a box
C13_Witness ==
    /\ assertionsOn
    /\ rIn.called
    /\ EntryFailure(rIn) = "none"
    /\ HasBadBox(rIn)
    /\ rStatus = "abort_dim"
    /\ fdata # <<>>

\* C14: a call of refine on patches of dimension greater than 3 fails with
\* the "dimension > 3 not supported" error and writes no fine data, whatever
\* the destination boxes of the overlap and the depth are.
C14_UnsupportedDimension ==
    (rIn.called /\ rIn.dim > 3 /\ EntryFailure(rIn) = "none" /\ ~HasBadBox(rIn)) =>
        (rStatus = "error_dim" /\ fdata = <<>>)

NotFaceOrDepth(in) ==
    \/ in.overlapKind # "face"
    \/ in.srcKind # "face"
    \/ in.dstKind # "face"
    \/ in.cdepth # in.depth

AbortsBeforeWriting ==
    /\ rStatus \in {"abort_overlap", "abort_src", "abort_dst", "abort_depth"}
    /\ rIn.overlapKind # "face" => rStatus = "abort_overlap"
    /\ fdata = <<>>

\* C15 as stated: refine called with an overlap that is not a face overlap,
\* with a source or destination component that is not face data, or with
\* source and destination depths that differ, aborts before any fine data
\* is written; for the overlap the abort is that of the overlap's type.
C15_InvalidOverlapType ==
    (rIn.called /\ NotFaceOrDepth(rIn)) => AbortsBeforeWriting

\* C15 amended: in the build that checks its assertions.
C15_InvalidOverlapTypeChecked ==
    (assertionsOn /\ rIn.called /\ NotFaceOrDepth(rIn)) => AbortsBeforeWriting

\* a node overlap has been rejected although the overlap has a box
C15_Witness ==
    /\ assertionsOn
    /\ rIn.called
    /\ rIn.overlapKind = "node"
    /\ rIn.srcKind = "face" /\ rIn.dstKind = "face" /\ rIn.cdepth = rIn.depth
    /\ Launches(rIn) # <<>>
    /\ rStatus = "abort_overlap"
    /\ fdata = <<>>

EmptyOverlap(in) == \A a \in DOMAIN in.overlap : in.overlap[a] = <<>>

\* C16: an overlap with no destination box on any axis is valid: allocate
\* accepts it, executing the transaction leaves the destination data
\* unchanged, and refine in dimension 1 to 3 returns having written nothing.
C16_OverlapEmptiness ==
    /\ (acall.made /\ AssertsHold(acall.a) /\ acall.a.overlap.nodes = {}) =>
          /\ acall.out.status = "returned"
          /\ dstData = [p \in DstPatches |-> [n \in Comps |-> [node \in Nodes |-> 5]]]
    /\ (rIn.called /\ rIn.dim <= 3 /\ EntryFailure(rIn) = "none" /\ EmptyOverlap(rIn)) =>
          (rStatus = "returned" /\ fdata = <<>>)

\* a transaction with an empty overlap has been executed
C16_Witness ==
    /\ acall.made
    /\ acall.executed
    /\ acall.a.overlap.nodes = {}
    /\ dstData = [p \in DstPatches |-> [n \in Comps |-> [node \in Nodes |-> 5]]]

(***************************************************************************)
(* Properties of the identifiers.                                          *)
(***************************************************************************)
\* a valid identifier: a non-negative value that is not the invalid one
ValidId(type, v) == v >= 0 /\ v # idc[type].invalid

ZeroAndDistinct(type) ==
    /\ idc[type].zero = 0
    /\ idc[type].invalid # idc[type].zero
    /\ idw.made /\ idw.type = type =>
          /\ ValidId(type, idw.a) => idw.a # idc[type].invalid
          /\ idw.less <=> (idw.a < idw.b)
          /\ idw.less \/ idw.equal \/ idw.b < idw.a

GreaterThanValid(type) ==
    (idw.made /\ idw.type = type /\ ValidId(type, idw.a) /\ idw.b = idc[type].invalid)
        => idw.less

\* C17 as stated: for BlockId and for PeriodicId the invalid identifier is
\* the greatest integer and the zero identifier is 0; the invalid one differs
\* from the zero one and from every valid identifier, is greater than every
\* valid identifier, and the constants never change.
C17_IdentifierSentinels ==
    \A type \in IdTypes :
        /\ idc[type].invalid = IntMax
        /\ ZeroAndDistinct(type)
        /\ GreaterThanValid(type)
        /\ idc = StaticIds

\* C17 amended: BlockId's invalid identifier is the greatest integer and is
\* greater than every valid identifier; PeriodicId's is -1 and is less than
\* every valid identifier.
C17_IdentifierSentinelsAmended ==
    /\ idc.BlockId.invalid = IntMax
    /\ idc.PeriodicId.invalid = 0 - 1
    /\ GreaterThanValid("BlockId")
    /\ (idw.made /\ idw.type = "PeriodicId" /\ ValidId("PeriodicId", idw.a)
           /\ idw.b = idc.PeriodicId.invalid) => (~idw.less /\ ~idw.equal)
    /\ \A type \in IdTypes : ZeroAndDistinct(type)
    /\ idc = StaticIds

\* valid periodic identifier 0 has been compared with the invalid one
C17_Witness ==
    /\ idw.made
    /\ idw.type = "PeriodicId"
    /\ idw.a = 0
    /\ idw.b = idc.PeriodicId.invalid
    /\ ~idw.less

(***************************************************************************)
(* Properties of the round with remote transactions.                       *)
(***************************************************************************)
\* C18: in a round every send has been issued before the first receive is
\* awaited, and the process blocks in the wait for a receive only.
C18_SendBeforeWait ==
    /\ (rnd.awaiting # 0 \/ rnd.unpacked # {}) => rnd.issued = Sends
    /\ rnd.blocked => (rnd.phase = "waiting" /\ rnd.awaiting # 0
                          /\ rnd.awaiting \notin rnd.arrived)

\* the process is blocked in a wait, every send issued
C18_Witness ==
    /\ rnd.blocked
    /\ rnd.awaiting # 0
    /\ rnd.issued = Sends
    /\ rnd.unpacked # {}

\* C19: a round is complete only when every local transaction has executed
\* and every receive has been unpacked; a round that has failed is aborted,
\* and nothing goes on from the abort.
C19_AllOrNothing ==
    [][ /\ rnd'.phase = "complete" =>
              (rnd'.localDone = Locals /\ rnd'.unpacked = Receives)
        /\ rnd.phase = "aborted" => rnd' = rnd
        /\ rnd.phase \in {"sending", "local", "waiting"} =>
              rnd'.phase \in {"sending", "local", "waiting", "complete", "aborted"} ]_vars

\* a round has completed with its receives unpacked
C19_Witness ==
    /\ rnd.phase = "complete"
    /\ rnd.localDone = Locals
    /\ rnd.unpacked = Receives

\* C20: when computeRequiredConnectorWidths returns, fine_connector_widths
\* has exactly max_levels - 1 entries and every entry is the zero vector,
\* whatever the vector held before the call.
C20_FineWidthsZero ==
    wOut.made =>
        /\ Len(wOut.fine) = maxLevels - 1
        /\ \A i \in 1..Len(wOut.fine) : wOut.fine[i] = getZero(HierDim)

\* the entries of a self width list, one value on every axis
UniformEntries(widths) ==
    \A i \in DOMAIN widths : \A c, d \in DOMAIN widths[i] : widths[i][c] = widths[i][d]

\* C21: when computeRequiredConnectorWidths returns, self_connector_widths
\* has exactly max_levels entries whatever it held before, each entry has
\* one value on every axis, and the entries depend on the tag buffer and
\* max_levels only: an earlier call with the same tag buffer and max_levels,
\* whatever the vectors passed in held, gave the same entries.
C21_SelfWidths ==
    wOut.made =>
        /\ Len(wOut.self) = maxLevels
        /\ UniformEntries(wOut.self)
        /\ wOut.prev.made => wOut.self = wOut.prev.self

\* C22: computeRequiredConnectorWidths reads only existing elements of the
\* tag buffer, in every state reached by construction and setTagBuffer calls
\* and for every max_levels >= 1.
C22_TagBufferBounds == wOut.made => ~wOut.outOfBounds

\* C23: computeRequiredConnectorWidths leaves the tag buffer as it is, the
\* calls between two setTagBuffer calls return the same widths, and
\* setTagBuffer replaces the whole tag buffer.
C23_RequestorStateless ==
    [][ /\ (wOut'.made /\ wOut' # wOut) =>
              /\ tagBuffer' = tagBuffer
              /\ wOut'.prev.made =>
                    (wOut'.self = wOut'.prev.self /\ wOut'.fine = wOut'.prev.fine)
        /\ (lastSet'.made /\ lastSet' # lastSet) =>
              tagBuffer' = lastSet'.tag_buffer ]_vars

\* C24: in dimension 2 and 3 and for every normal axis, the box a kernel
\* iterates over (the overlap's face box taken to the physical axes,
\* shortened by one along the normal, transposed back to normal-first
\* order and grown by one along the first coordinate) is the overlap's
\* face box; a kernel writes indices of that box only, and when refine has
\* returned exactly the face indices of the overlap's boxes are written.
C24_IterationBox ==
    rIn.called =>
        /\ \A n \in 1..Len(Launches(rIn)) :
              IterationBox(rIn, Launches(rIn)[n]) = Launches(rIn)[n].box
        /\ rStatus = "running" => rWritten \subseteq BoxIndices(Launches(rIn)[rpc].box)
        /\ rStatus = "returned" => DOMAIN fdata = DestLocs(rIn)

\* refine has returned in dimension 3 with a box of normal axis 2 whose
\* extents differ, and in dimension 2 with a box of normal axis 1
C24_Witness ==
    /\ rStatus = "returned"
    /\ rIn.dim \in {2, 3}
    /\ rIn.overlap[rIn.dim] # <<>>
    /\ LET box == rIn.overlap[rIn.dim][1]
       IN  /\ box.hi[1] - box.lo[1] # box.hi[rIn.dim] - box.lo[rIn.dim]
           /\ box.lo[1] # box.lo[2]
    /\ DOMAIN fdata # {}

\* the call meets the preconditions refine asserts
MeetsAssertions(in) == ~EntryUndefined(in) /\ EntryFailure(in) = "none" /\ ~HasBadBox(in)

\* C25: a call of refine that meets the preconditions refine asserts (and,
\* in the build that checks them, every call) never writes the coarse
\* patch's data, and at every moment of the call the fine values written
\* are values of a destination depth component at face indices of the
\* overlap's destination boxes of the same normal axis; every other fine
\* value is as it was.
C25_RefineFrame ==
    (rIn.called /\ (assertionsOn \/ MeetsAssertions(rIn))) =>
        /\ cWritten = {}
        /\ DOMAIN fdata \subseteq DestLocs(rIn)

\* refine has returned in the build without assertions, having written the
\* faces of one normal axis of two; the other axis's array is as it was
C25_Witness ==
    /\ rStatus = "returned"
    /\ ~assertionsOn
    /\ MeetsAssertions(rIn)
    /\ rIn.dim = 2
    /\ rIn.overlap[1] = <<>>
    /\ DOMAIN fdata = DestLocs(rIn)
    /\ DOMAIN fdata # {}
    /\ cWritten = {}

\* C26: for each destination box, every depth component d in 0..depth-1 of
\* the destination is filled from depth component d of the source array of
\* the same normal axis, never from another depth or another axis's array;
\* with depth 0 nothing is written.
C26_DepthHandling ==
    rIn.called =>
        /\ \A loc \in DOMAIN fdata :
              /\ loc[2] \in 0..(rIn.depth - 1)
              /\ fdata[loc].axis = loc[1]
              /\ fdata[loc].d = loc[2]
        /\ rStatus = "returned" => DestLocs(rIn) \subseteq DOMAIN fdata
        /\ rIn.depth = 0 => (fdata = <<>> /\ rStatus = "returned")

\* refine has returned having filled two depth components of the boxes of
\* every normal axis in dimension 3
C26_Witness ==
    /\ rStatus = "returned"
    /\ rIn.dim = 3
    /\ rIn.depth = 2
    /\ \A a \in 1..3 : rIn.overlap[a] # <<>>
    /\ \E loc \in DOMAIN fdata : loc[1] = 2 /\ loc[2] = 1 /\ fdata[loc].d = 1 /\ fdata[loc].axis = 2
    /\ \E loc \in DOMAIN fdata : loc[1] = 0 /\ loc[2] = 0 /\ fdata[loc].d = 0

(***************************************************************************)
(* Properties of preprocessScratchSpace in either build.                   *)
(***************************************************************************)
UnselectedKept ==
    \A p \in DstPatches : \A n \in Comps \ preCall.sel :
        dstData[p][n] = preCall.before[p][n]

\* a selected component of a patch of the level is not outernode data
SelectsOther ==
    /\ ~preCall.nullLevel
    /\ preCall.patches # {}
    /\ \E n \in preCall.sel : CompKind(n) # "outernode"

OthersKept ==
    \A p \in DstPatches : \A n \in Comps :
        CompKind(n) # "outernode" => dstData[p][n] = preCall.before[p][n]

\* C27 as stated: preprocessScratchSpace changes no component whose index
\* is not set in the selector; with an empty selector or a level without
\* patches it changes nothing; with a null level, or a selected component
\* that is not outernode data, it fails and does not write.
C27_ZeroFillFrame ==
    preCall.made =>
        /\ UnselectedKept
        /\ (preCall.sel = {} \/ (~preCall.nullLevel /\ preCall.patches = {})) =>
              dstData = preCall.before
        /\ preCall.nullLevel => (~preCall.ok /\ dstData = preCall.before)
        /\ SelectsOther => (~preCall.ok /\ OthersKept)

\* C27 amended: a call with a level that is not null changes no component
\* whose index is not set in the selector, unless the assertions are
\* compiled out and it selects a component that is not outernode data; with
\* a level that is not null and an empty selector or no patches it changes
\* nothing and returns; in the build that checks its assertions a null level
\* fails before any write, and a selected component that is not outernode
\* data fails with no component written that is unselected or not outernode
\* data.
C27_ZeroFillFrameChecked ==
    preCall.made =>
        /\ (assertionsOn \/ (~preCall.nullLevel /\ ~SelectsOther)) => UnselectedKept
        /\ (~preCall.nullLevel /\ (preCall.sel = {} \/ preCall.patches = {})) =>
              (preCall.ok /\ dstData = preCall.before)
        /\ (assertionsOn /\ preCall.nullLevel) => (~preCall.ok /\ dstData = preCall.before)
        /\ (assertionsOn /\ SelectsOther) =>
              (~preCall.ok /\ OthersKept /\ UnselectedKept)

\* in the build that checks its assertions a call has failed at a component
\* that is not outernode data, after it had zeroed a selected component
C27_Witness ==
    /\ preCall.made
    /\ assertionsOn
    /\ SelectsOther
    /\ ~preCall.ok
    /\ dstData # preCall.before
    /\ UnselectedKept
    /\ Comps \ preCall.sel # {}

\* C28: the full overload of allocate ignores the clip box and
\* use_time_interpolation: a call with the same other arguments and any
\* clip box and flag returns the same transaction (levels, overlap, boxes,
\* refine data and item id).
C28_ClipBoxIgnored ==
    (acall.made /\ acall.overload = "full") =>
        \A box \in ClipBoxes, uti \in BOOLEAN :
            allocateFull(assertionsOn, acall.a, box, uti) = {acall.out}

\* the full overload has returned a transaction for item 1, called with a
\* clip box that is not empty and with time interpolation
C28_Witness ==
    /\ acall.made
    /\ acall.overload = "full"
    /\ assertionsOn
    /\ acall.out.status = "returned"
    /\ acall.use_time_interpolation
    /\ acall.box # EmptyBox(2)
    /\ acall.a.item_id = 1
    /\ acall.out.txn.item_id = 1

(***************************************************************************)
(* Properties of the driver's loop.                                        *)
(***************************************************************************)
\* a step of the driver that calls advanceHierarchy
Advances == drv'.pc = "loop" /\ drv.pc = "loop" /\ drv' # drv

\* the loop's guard, the hand-over of dt, and the exit status
LoopDiscipline ==
    /\ Advances =>
          /\ drv.loop_time < drv.loop_time_end
          /\ drv.step < drv.max_steps
          /\ drv'.call.dt = drv.dt_now
          /\ drv'.dt_now = drv'.call.returned
    /\ (drv.pc = "loop" /\ drv'.pc = "returned") =>
          (drv.loop_time >= drv.loop_time_end \/ drv.step >= drv.max_steps)
    /\ drv'.pc = "returned" =>
          /\ drv'.status = drv'.num_failures
          /\ drv'.passed <=> (drv'.num_failures = 0)
    /\ (drv'.pc # "off" /\ drv.pc # "off") =>
          /\ drv'.num_failures >= drv.num_failures
          /\ ~drv.testing => drv'.num_failures = 0

\* C29 as stated: advanceHierarchy is called only while loop_time < end
\* time and stepsRemaining(); after each call loop_time has grown by exactly
\* the dt passed to the call and the next dt is the value the call
\* returned; the loop exits the first time a condition fails; main returns
\* the accumulated failure count and PASSED is printed exactly when it is 0.
C29_TimeLoop ==
    [][ /\ LoopDiscipline
        /\ Advances => drv'.loop_time = drv.loop_time + drv.dt_now ]_vars

\* C29 amended: after each call loop_time is the double sum of its value
\* before and the dt passed to the call; it has grown by exactly that dt
\* when the sum is representable.
C29_TimeLoopRounded ==
    [][ /\ LoopDiscipline
        /\ Advances =>
              /\ drv'.loop_time = FAdd(drv.loop_time, drv.dt_now)
              /\ Representable(drv.loop_time + drv.dt_now) =>
                    drv'.loop_time = drv.loop_time + drv.dt_now ]_vars

\* main has returned 2 after three steps whose dt differed from the dt the
\* call before had been passed, without printing PASSED
C29_Witness ==
    /\ drv.pc = "returned"
    /\ drv.step - drv.first_step = 3
    /\ drv.call.dt # drv.call.returned
    /\ drv.loop_time >= drv.loop_time_end
    /\ drv.status = 2
    /\ ~drv.passed

\* the steps the loop has completed
StepsDone == (drv.first_step + 1)..drv.step

IsMultiple(n, k) == \E m \in 0..n : m * k = n

\* C30: at the end of time step n a restart file is written exactly when
\* restart_interval > 0, the restart directory name is not empty and n is a
\* multiple of restart_interval; a Matlab pencil dump is written exactly
\* when matlab_dump_interval > 0 and n is a multiple of it; with an
\* interval of 0 the output is never written in the loop and no modulo by
\* zero is evaluated.
C30_DumpSchedule ==
    drv.pc \in {"loop", "returned"} =>
        /\ drv.restarts = {n \in StepsDone :
                              /\ drv.restart_interval > 0
                              /\ ~drv.dirname_empty
                              /\ IsMultiple(n, drv.restart_interval)}
        /\ drv.dumps = {n \in StepsDone :
                           /\ drv.matlab_dump_interval > 0
                           /\ IsMultiple(n, drv.matlab_dump_interval)}
        /\ drv.restart_interval = 0 => drv.restarts = {}
        /\ drv.matlab_dump_interval = 0 => drv.dumps = {}
        /\ 0 \notin drv.moduli

\* steps 2 and 3 are done: with the intervals 2 and 1 the restart file of
\* step 2 and the dumps of both steps are written
C30_Witness ==
    /\ drv.pc = "returned"
    /\ drv.first_step = 1
    /\ drv.step = 3
    /\ drv.restart_interval = 2
    /\ drv.matlab_dump_interval = 1
    /\ drv.restarts = {2}
    /\ drv.dumps = {2, 3}

====
